---- MODULE Spec2Model ----
(***************************************************************************)
(* Pygmalion: the DesignSession wrapper of src/pygmalion/agent.py (connect, *)
(* disconnect, the send async generator and its auto-open bookkeeping) and  *)
(* the autonomy-mode parser of src/pygmalion/config.py.                     *)
(*                                                                          *)
(* Spec      the session driven by one consumer and by the agent SDK        *)
(* SpecMode  AutonomyMode.from_string applied to bounded inputs             *)
(***************************************************************************)
EXTENDS Integers, Sequences, FiniteSets, TLC

(***************************************************************************)
(* Bounds of the model                                                      *)
(***************************************************************************)
MaxClients == 2        \* ClaudeSDKClient objects created by connect()
MaxSends == 2          \* send() calls of the consumer
MaxBlocks == 2         \* content blocks the agent emits over the session
MaxCaseFlips == 2      \* letters of a spelling turned to upper case

VARIABLES
    \* ---- DesignSession fields (agent.py 339-359)
    working_dir,      \* self._working_dir: a directory or None
    client,           \* self._client: None or the id of a ClaudeSDKClient
    message_count,    \* self._message_count
    is_connected,     \* self._is_connected
    \* ---- the SDK and the process environment
    clientsCreated,   \* ClaudeSDKClient(...) constructions so far
    openConns,        \* ids of the clients whose transport is open
    outputDirEnv,     \* os.environ["PYGMALION_OUTPUT_DIR"]
    fs,               \* paths that exist in the file system
    mcp_servers,      \* names of the MCP servers given to the latest client
    \* ---- the async generator returned by send()
    gen,
    \* ---- what the consumer and the agent saw in the current turn
    emitted,          \* blocks of the AssistantMessages the agent streamed
    events,           \* (type, content) tuples delivered to the consumer
    toolResults,      \* ToolResultBlocks the agent streamed
    endOfTurn,        \* receive_response() completed
    autoOpened,       \* paths passed to _auto_open_file
    launched,         \* subprocess.Popen calls of _auto_open_file
    \* ---- counts over the life of the session object
    sendCalls,        \* send() calls
    sendsCompleted,   \* send() generators consumed to end-of-turn
    sendsBroken,      \* generators that raised or were closed after query()
    blocksEmitted,    \* content blocks the agent emitted so far
    lastConnect,      \* outcome of the latest connect() call
    lastOp,           \* the last step taken and its outcome
    \* ---- AutonomyMode.from_string
    modeBase, modeInput, modeResult,
    \* ---- configuration resolved from the process environment
    environ,          \* os.environ
    dotenv,           \* the assignments of the .env file
    mainPc,           \* how far main.py got: start, dotenv, imported, session
    DEFAULT_TOOLS,    \* DesignSession.DEFAULT_TOOLS
    allowed_tools,    \* self._allowed_tools
    autonomy_mode,    \* self._autonomy_mode
    tools_arg,        \* the allowed_tools argument of the constructor
    tools_view,       \* the list the allowed_tools property gave its caller
    \* ---- one call of a tool adapter (src/pygmalion/tools)
    toolCall,         \* the tool, its args and what it finds around it
    toolResult,       \* what the call returned and did
    \* ---- run_cli (main.py 195-398)
    cliPc,            \* where run_cli is
    cliMode,          \* the local autonomy_mode of run_cli
    sessions,         \* the DesignSession objects run_cli created, in order
    animating,        \* the Spinner objects whose thread is alive
    tool_spinner,     \* the local tool_spinner: a Spinner or NoSpinner
    response_started, \* the local response_started
    rendered,         \* events of the current reply the loop has taken
    finalDisconnect,  \* what the finally clause of run_cli did
    cliOp             \* the last step of run_cli and how it ended

sessVars == <<working_dir, client, message_count, is_connected>>
sdkVars == <<clientsCreated, openConns, outputDirEnv, fs, mcp_servers>>
turnVars == <<emitted, events, toolResults, endOfTurn, autoOpened, launched>>
countVars == <<sendCalls, sendsCompleted, sendsBroken, blocksEmitted,
               lastConnect>>
modeVars == <<modeBase, modeInput, modeResult>>
cfgVars == <<environ, dotenv, mainPc, DEFAULT_TOOLS, allowed_tools,
             autonomy_mode, tools_arg, tools_view>>
toolVars == <<toolCall, toolResult>>
cliVars == <<cliPc, cliMode, sessions, animating, tool_spinner,
             response_started, rendered, finalDisconnect, cliOp>>
restVars == <<modeVars, cfgVars, toolVars, cliVars>>
vars == <<sessVars, sdkVars, gen, turnVars, countVars, lastOp, restVars>>

(***************************************************************************)
(* Values                                                                   *)
(***************************************************************************)
None == "None"
NoClient == 0
WorkDir == "/work"
Prompts == {"", "draw a logo"}

\* A step, its outcome and the calls it made on the underlying client
Op(o, r, n) == [op |-> o, result |-> r, calls |-> n]


(***************************************************************************)
(* Paths.  A relative path is a stem and an extension; os.path.abspath(     *)
(* os.path.join(working_dir, p)) puts it under the working directory.       *)
(***************************************************************************)
File(stem, ext) == [stem |-> stem, ext |-> ext]
NoPath == File("", "")                      \* absent key, None or ""
LogoSvg == File("logo", ".svg")
BannerPng == File("banner", ".PNG")
GrokImage1 == File("grok_image_1", ".png")  \* f"grok_image_{idx + 1}{ext}"
RelPaths == {LogoSvg, BannerPng}

AbsPath(wd, p) == [dir |-> wd, stem |-> p.stem, ext |-> p.ext]
AllAbsPaths == {AbsPath(WorkDir, p) : p \in RelPaths \cup {GrokImage1}}

\* str.lower() on the extensions that occur
LowerExt(e) == IF e = ".PNG" THEN ".png" ELSE IF e = ".SVG" THEN ".svg" ELSE e

(***************************************************************************)
(* Tool names are "mcp__<server>__<tool>" or a built-in name; kept as their *)
(* "__"-separated segments so that startswith() can be evaluated.           *)
(***************************************************************************)
Builtin(n) == <<n>>
Mcp(server, tool) == <<"mcp", server, tool>>
StartsWithMcp(name, server) ==
    Len(name) >= 2 /\ name[1] = "mcp" /\ name[2] = server

Input(fp, of, op) == [file_path |-> fp, output_file |-> of, output_path |-> op]
NoInput == Input(NoPath, NoPath, NoPath)

TextBlock(t) == [kind |-> "text", text |-> t, name |-> <<>>, input |-> NoInput]
ToolUseBlock(n, i) == [kind |-> "tool_use", text |-> "", name |-> n, input |-> i]
OtherBlock == [kind |-> "other", text |-> "", name |-> <<>>, input |-> NoInput]
NoBlock == [kind |-> "none", text |-> "", name |-> <<>>, input |-> NoInput]

\* The blocks the agent may put into an AssistantMessage
Blocks ==
    { TextBlock("Here is"), TextBlock("your logo."),
      ToolUseBlock(Builtin("Write"), Input(LogoSvg, NoPath, NoPath)),
      ToolUseBlock(Builtin("Edit"), Input(LogoSvg, NoPath, NoPath)),
      ToolUseBlock(Builtin("Read"), Input(LogoSvg, NoPath, NoPath)),
      ToolUseBlock(Mcp("inkscape", "query_svg"), Input(LogoSvg, NoPath, NoPath)),
      ToolUseBlock(Mcp("gimp", "open_in_gimp"), Input(BannerPng, NoPath, NoPath)),
      ToolUseBlock(Mcp("gemini", "gemini_generate_image"), Input(NoPath, BannerPng, NoPath)),
      ToolUseBlock(Mcp("grok", "generate_image"), NoInput),
      OtherBlock }

(***************************************************************************)
(* send(): what one content block yields, and what it adds to created_files *)
(***************************************************************************)
\* Variant: the yield of line 652 is missing
BlockEventTextOnly(b) ==
    IF b.kind = "text" THEN <<"text", b.text>> ELSE <<>>

\* agent.py 645-652: the event a block yields (<<>> when it yields nothing)
BlockEvent(b) ==
    IF b.kind = "text" THEN <<"text", b.text>>
    ELSE IF b.kind = "tool_use" THEN <<"tool_use", b.name>>
    ELSE <<>>

\* agent.py 690-698, 701-709: the first truthy of the three parameters
FirstOutputParam(i) ==
    IF i.output_file # NoPath THEN i.output_file
    ELSE IF i.output_path # NoPath THEN i.output_path
    ELSE i.file_path

\* Variant: the file_path of every tool is tracked
TrackedFilesAnyTool(b, wd, files) ==
    IF b.input.file_path # NoPath
    THEN <<AbsPath(wd, b.input.file_path)>> ELSE <<>>

\* agent.py 656-709: the paths a ToolUseBlock appends to created_files
TrackedFiles(b, wd, files) ==
    IF b.name = Builtin("Write") THEN
        IF b.input.file_path # NoPath
        THEN <<AbsPath(wd, b.input.file_path)>> ELSE <<>>
    ELSE IF b.name = Builtin("Edit") THEN
        IF b.input.file_path # NoPath
           /\ AbsPath(wd, b.input.file_path) \notin files
        THEN <<AbsPath(wd, b.input.file_path)>> ELSE <<>>
    ELSE IF b.name = Mcp("gemini", "gemini_generate_image") THEN
        IF b.input.output_file # NoPath
        THEN <<AbsPath(wd, b.input.output_file)>> ELSE <<>>
    ELSE IF StartsWithMcp(b.name, "inkscape") THEN
        IF FirstOutputParam(b.input) # NoPath
        THEN <<AbsPath(wd, FirstOutputParam(b.input))>> ELSE <<>>
    ELSE IF StartsWithMcp(b.name, "imagemagick") \/ StartsWithMcp(b.name, "gimp") THEN
        IF FirstOutputParam(b.input) # NoPath
        THEN <<AbsPath(wd, FirstOutputParam(b.input))>> ELSE <<>>
    ELSE <<>>

\* agent.py 567-589: the application _auto_open_file starts for an extension
AutoOpenApp(ext) ==
    IF ext = ".svg" THEN "inkscape"
    ELSE IF ext \in {".png", ".jpg", ".jpeg", ".gif", ".bmp", ".webp"} THEN "gimp"
    ELSE IF ext \in {".html", ".htm"} THEN "xdg-open"
    ELSE None

\* agent.py 548-593: the Popen call of _auto_open_file(path), if it makes one
AutoOpenFile(path, files) ==
    IF path \notin files THEN <<>>
    ELSE IF AutoOpenApp(LowerExt(path.ext)) = None THEN <<>>
    ELSE <<[app |-> AutoOpenApp(LowerExt(path.ext)), path |-> path]>>

RECURSIVE AutoOpenAll(_, _)
\* agent.py 755-756: for file_path in created_files: self._auto_open_file(...)
AutoOpenAll(paths, files) ==
    IF paths = <<>> THEN <<>>
    ELSE AutoOpenFile(Head(paths), files) \o AutoOpenAll(Tail(paths), files)


(***************************************************************************)
(* AutonomyMode.from_string  config.py 67-89.  A string is the sequence of  *)
(* its characters.                                                          *)
(***************************************************************************)
LowerLetters == <<"a", "b", "c", "d", "e", "f", "g", "h", "i", "j", "k", "l", "m", "n", "o", "p", "q", "r", "s", "t", "u", "v", "w", "x", "y", "z">>
UpperLetters == <<"A", "B", "C", "D", "E", "F", "G", "H", "I", "J", "K", "L", "M", "N", "O", "P", "Q", "R", "S", "T", "U", "V", "W", "X", "Y", "Z">>

\* Variant: the value is not lower-cased
StrLowerMissing(str) == str

\* str.lower() and str.upper() on one character
LowerChar(c) ==
    IF \E i \in 1..26 : UpperLetters[i] = c
    THEN LowerLetters[CHOOSE i \in 1..26 : UpperLetters[i] = c] ELSE c
UpperChar(c) ==
    IF \E i \in 1..26 : LowerLetters[i] = c
    THEN UpperLetters[CHOOSE i \in 1..26 : LowerLetters[i] = c] ELSE c

StrLower(str) == [i \in 1..Len(str) |-> LowerChar(str[i])]
\* str.replace(old, new) for one-character old and new
StrReplace(str, old, new) ==
    [i \in 1..Len(str) |-> IF str[i] = old THEN new ELSE str[i]]

\* config.py 77: value.lower().replace("-", "_").replace(" ", "_")
Normalize(value) == StrReplace(StrReplace(StrLower(value), "-", "_"), " ", "_")

\* config.py 79, 81, 83: the three tuples of spellings
ApprovalSpellings == {<<"a", "p", "p", "r", "o", "v", "a", "l">>, <<"d", "e", "f", "a", "u", "l", "t">>}
AutoSpellings == {<<"a", "u", "t", "o">>,
                  <<"a", "c", "c", "e", "p", "t", "e", "d", "i", "t", "s">>}
FullAutoSpellings == {<<"f", "u", "l", "l", "_", "a", "u", "t", "o">>,
                      <<"f", "u", "l", "l", "a", "u", "t", "o">>,
                      <<"b", "y", "p", "a", "s", "s">>,
                      <<"b", "y", "p", "a", "s", "s", "p", "e", "r", "m", "i", "s", "s", "i", "o", "n", "s">>}

\* config.py 79-89: the mode, or ValueError
from_string(value) ==
    IF Normalize(value) \in ApprovalSpellings THEN "APPROVAL"
    ELSE IF Normalize(value) \in AutoSpellings THEN "AUTO"
    ELSE IF Normalize(value) \in FullAutoSpellings THEN "FULL_AUTO"
    ELSE "ValueError"

\* Inputs: the spellings of the docstring (config.py 72-75) and of the code,
\* strings near them that are no spelling, each with some letters in upper
\* case
RecognisedWords ==
    {<<"a", "p", "p", "r", "o", "v", "a", "l">>,
     <<"d", "e", "f", "a", "u", "l", "t">>,
     <<"a", "u", "t", "o">>,
     <<"a", "c", "c", "e", "p", "t", "E", "d", "i", "t", "s">>,
     <<"f", "u", "l", "l", "_", "a", "u", "t", "o">>,
     <<"f", "u", "l", "l", "-", "a", "u", "t", "o">>,
     <<"f", "u", "l", "l", " ", "a", "u", "t", "o">>,
     <<"f", "u", "l", "l", "a", "u", "t", "o">>,
     <<"b", "y", "p", "a", "s", "s">>,
     <<"b", "y", "p", "a", "s", "s", "P", "e", "r", "m", "i", "s", "s", "i", "o", "n", "s">>}
OtherWords ==
    {<<>>,
     <<"a", "u", "t">>,
     <<"a", "u", "t", "o", "s">>,
     <<"m", "a", "n", "u", "a", "l">>,
     <<"f", "u", "l", "l">>,
     <<"f", "u", "l", "l", "_", "_", "a", "u", "t", "o">>,
     <<"a", "c", "c", "e", "p", "t", "_", "e", "d", "i", "t", "s">>,
     <<"b", "y", "p", "a", "s", "s", "_", "p", "e", "r", "m", "i", "s", "s", "i", "o", "n", "s">>,
     <<"d", "e", "f", "a", "u", "l", "t", "s">>,
     <<"n", "o", "n", "e">>,
     <<"_", "a", "u", "t", "o">>,
     <<"a", "u", "t", "o", " ">>}
BaseWords == RecognisedWords \cup OtherWords

RECURSIVE Flips(_, _)
\* The sets of at most k positions of 1..n
Flips(n, k) ==
    IF k = 0 THEN {{}}
    ELSE Flips(n, k - 1) \cup {m \cup {i} : m \in Flips(n, k - 1), i \in 1..n}

CaseVariant(word, ups) ==
    [i \in 1..Len(word) |-> IF i \in ups THEN UpperChar(word[i]) ELSE word[i]]


(***************************************************************************)
(* The process environment and the resolvers of config.py 96-139            *)
(***************************************************************************)
Unset == <<"unset">>                 \* the variable is not in os.environ
Str1(a) == <<a>>
AutoStr == <<"a", "u", "t", "o">>
TrueStr == <<"t", "r", "u", "e">>
Whitespace == {" ", "\t", "\n"}

Environ(mode, gflag, gkey, fflag, ftoken) ==
    [PYGMALION_AUTONOMY_MODE |-> mode,
     PYGMALION_GEMINI_ENABLED |-> gflag, GEMINI_API_KEY |-> gkey,
     PYGMALION_FIGMA_ENABLED |-> fflag, FIGMA_ACCESS_TOKEN |-> ftoken]
NoEnviron == Environ(Unset, Unset, Unset, Unset, Unset)

\* os.environ.get(name, "")
EnvGet(value) == IF value = Unset THEN <<>> ELSE value

RECURSIVE LStrip(_)
LStrip(str) ==
    IF str # <<>> /\ Head(str) \in Whitespace THEN LStrip(Tail(str)) ELSE str
RECURSIVE RStrip(_)
RStrip(str) ==
    IF str # <<>> /\ str[Len(str)] \in Whitespace
    THEN RStrip(SubSeq(str, 1, Len(str) - 1)) ELSE str
\* str.strip()
Strip(str) == RStrip(LStrip(str))

\* Variant: the ValueError of from_string is not caught
get_default_autonomy_mode_uncaught(env) ==
    IF Strip(EnvGet(env.PYGMALION_AUTONOMY_MODE)) # <<>>
    THEN from_string(Strip(EnvGet(env.PYGMALION_AUTONOMY_MODE)))
    ELSE "APPROVAL"

\* config.py 96-111
get_default_autonomy_mode(env) ==
    LET env_value == Strip(EnvGet(env.PYGMALION_AUTONOMY_MODE))
    IN  IF env_value # <<>> /\ from_string(env_value) # "ValueError"
        THEN from_string(env_value)
        ELSE "APPROVAL"

\* config.py 124, 139: enabled in ("true", "1", "yes", "on")
TruthyStrings == {TrueStr, Str1("1"), <<"y", "e", "s">>, <<"o", "n">>}

\* Variant: the credential is not looked at
IntegrationEnabledFlagOnly(flag, credential) ==
    StrLower(EnvGet(flag)) \in TruthyStrings

\* config.py 121-124, 136-139: the flag is lower-cased, the credential is
\* stripped
IntegrationEnabled(flag, credential) ==
    /\ StrLower(EnvGet(flag)) \in TruthyStrings
    /\ Strip(EnvGet(credential)) # <<>>

\* config.py 114-124
is_gemini_enabled(env) ==
    IntegrationEnabled(env.PYGMALION_GEMINI_ENABLED, env.GEMINI_API_KEY)
\* config.py 127-139
is_figma_enabled(env) ==
    IntegrationEnabled(env.PYGMALION_FIGMA_ENABLED, env.FIGMA_ACCESS_TOKEN)

BuiltinTools ==
    <<Builtin("Read"), Builtin("Write"), Builtin("Edit"), Builtin("Bash"),
      Builtin("Glob"), Builtin("Grep"), Builtin("WebSearch"),
      Builtin("WebFetch"), Builtin("Skill")>>
INKSCAPE_TOOL_NAMES ==
    <<Mcp("inkscape", "export_svg"), Mcp("inkscape", "open_in_inkscape"),
      Mcp("inkscape", "query_svg"), Mcp("inkscape", "convert_svg")>>
IMAGEMAGICK_TOOL_NAMES ==
    <<Mcp("imagemagick", "image_resize"), Mcp("imagemagick", "image_convert"),
      Mcp("imagemagick", "image_effects"),
      Mcp("imagemagick", "image_composite")>>
GIMP_TOOL_NAMES ==
    <<Mcp("gimp", "open_in_gimp"), Mcp("gimp", "gimp_script"),
      Mcp("gimp", "gimp_filter"), Mcp("gimp", "gimp_text"),
      Mcp("gimp", "gimp_composite")>>
WEASYPRINT_TOOL_NAMES == <<Mcp("weasyprint", "html_to_pdf")>>
GEMINI_TOOL_NAMES ==
    <<Mcp("gemini", "gemini_generate_image"),
      Mcp("gemini", "gemini_generate_svg")>>
FigmaToolNames ==
    <<Mcp("figma", "get_figma_data"), Mcp("figma", "download_figma_images")>>

\* agent.py 258-293, evaluated when the class body runs.  The Grok part
\* (285-292) is left out
DefaultTools(env) ==
    BuiltinTools \o INKSCAPE_TOOL_NAMES \o IMAGEMAGICK_TOOL_NAMES
    \o GIMP_TOOL_NAMES \o WEASYPRINT_TOOL_NAMES
    \o (IF is_gemini_enabled(env) THEN GEMINI_TOOL_NAMES ELSE <<>>)
    \o (IF is_figma_enabled(env) THEN FigmaToolNames ELSE <<>>)

\* Variant: the WeasyPrint server is not registered
McpServersNoWeasyprint(env) ==
    {"inkscape", "imagemagick", "gimp"}
    \cup (IF is_gemini_enabled(env) THEN {"gemini"} ELSE {})
    \cup (IF is_figma_enabled(env) THEN {"figma"} ELSE {})

\* agent.py 430-486: the keys of the mcp_servers dict connect() builds
McpServers(env) ==
    {"inkscape", "imagemagick", "gimp", "weasyprint"}
    \cup (IF is_gemini_enabled(env) THEN {"gemini"} ELSE {})
    \cup (IF is_figma_enabled(env) THEN {"figma"} ELSE {})

\* The allowed_tools argument of DesignSession(): given or left at None
ToolsArg(given, list) == [given |-> given, list |-> list]
NoToolsArg == ToolsArg(FALSE, <<>>)

\* agent.py 340: allowed_tools or self.DEFAULT_TOOLS.copy(); an empty list
\* is falsy
AllowedToolsOrDefault(arg, default) ==
    IF arg.given /\ arg.list # <<>> THEN arg.list ELSE default

\* agent.py 381-384: the property returns a copy, a list that shares nothing
\* with self._allowed_tools
ToolsView(read, list, aliased) ==
    [read |-> read, list |-> list, aliased |-> aliased]
NoToolsView == ToolsView(FALSE, <<>>, FALSE)
AllowedToolsProperty(tools) == ToolsView(TRUE, tools, FALSE)

(***************************************************************************)
(* Tool adapters  src/pygmalion/tools.  An adapter is an async function     *)
(* from an args dict to a response; a call is modelled with what it finds   *)
(* (environment variables, installed programs, files) and what it did       *)
(* (the external calls it made and the files it wrote).                     *)
(***************************************************************************)
Cwd == "/cwd"                        \* the current directory of the process

\* args.get(key, default); args is a function on the keys the dict holds
ArgGet(args, key, default) == IF key \in DOMAIN args THEN args[key] ELSE default

\* os.path.isabs, and the resolution of gemini.py 382-390, 694-699
IsAbs(path) == "dir" \in DOMAIN path
ResolveOutput(path, output_dir) ==
    IF IsAbs(path) THEN path
    ELSE IF output_dir # None THEN AbsPath(output_dir, path)
    ELSE AbsPath(Cwd, path)

ToolCall(tool, args, env, found) ==
    [tool |-> tool, args |-> args, env |-> env, found |-> found]
NoCall == ToolCall("none", <<>>, <<>>, <<>>)

\* The response {"content": [{"type": "text", "text": ...}]} is its text; an
\* exception that leaves the adapter is state "raised"
ToolResult(state, text, calls, written) ==
    [state |-> state, text |-> text, calls |-> calls, written |-> written]
NoResult == ToolResult("pending", "", <<>>, {})
Returned(text, calls, written) == ToolResult("returned", text, calls, written)
Raised(exc, calls, written) == ToolResult("raised", exc, calls, written)

(***************************************************************************)
(* gemini_generate_image  tools/gemini.py 290-516                           *)
(***************************************************************************)
StrUpper(str) == [i \in 1..Len(str) |-> UpperChar(str[i])]
Size1K == <<"1", "K">>
Size2K == <<"2", "K">>
Size4K == <<"4", "K">>
VALID_IMAGE_SIZES == {Size1K, Size2K, Size4K}

GeminiEnv(sdk, key, googleKey, imageSize, outputDir) ==
    [GEMINI_AVAILABLE |-> sdk, GEMINI_API_KEY |-> key,
     GOOGLE_API_KEY |-> googleKey, PYGMALION_GEMINI_IMAGE_SIZE |-> imageSize,
     PYGMALION_OUTPUT_DIR |-> outputDir]

\* gemini.py 117: os.environ.get("GEMINI_API_KEY") or os.environ.get(...)
ApiKey(env) ==
    IF EnvGet(env.GEMINI_API_KEY) # <<>> THEN env.GEMINI_API_KEY
    ELSE EnvGet(env.GOOGLE_API_KEY)

ModelCall(api, model, number, size) ==
    [api |-> api, model |-> model, number |-> number, size |-> size]
Written(path, content) == [path |-> path, content |-> content]

\* f"{base_name}_{i}{extension}" of gemini.py 432-442
Numbered(path, i) ==
    [path EXCEPT !.stem =
        IF path.stem = "banner"
        THEN <<"banner_1", "banner_2", "banner_3", "banner_4">>[i]
        ELSE <<"logo_1", "logo_2", "logo_3", "logo_4">>[i],
     !.ext = IF path.ext = "" THEN ".png" ELSE path.ext]

\* gemini.py 476-516: the text the except clause makes of an exception
ImageErrorText(exc) ==
    IF exc = "quota" THEN "Gemini API rate limit or quota exceeded."
    ELSE IF exc = "auth" THEN "Gemini API authentication error."
    ELSE "Gemini image generation error"

\* gemini.py 309-319: a valid PYGMALION_GEMINI_IMAGE_SIZE wins over the
\* argument
ImageSize(args, env) ==
    LET env_image_size == StrUpper(EnvGet(env.PYGMALION_GEMINI_IMAGE_SIZE))
        image_size == IF env_image_size \in VALID_IMAGE_SIZES
                      THEN env_image_size
                      ELSE ArgGet(args, "image_size", Size1K)
    IN  IF image_size \in VALID_IMAGE_SIZES THEN image_size ELSE Size1K

\* gemini.py 142-237.  outcome: what generate_content did; open() may fail
generate_image_4k(args, env, outcome, writeOk) ==
    LET call == ModelCall("generate_content", "gemini-3-pro-image-preview",
                          1, Size4K)
        abs_output_file == ResolveOutput(args.output_file,
                                         env.PYGMALION_OUTPUT_DIR)
    IN  IF outcome \in {"quota", "auth", "other"}
        THEN Returned(ImageErrorText(outcome), <<call>>, {})
        ELSE IF outcome = "empty"
        THEN Returned("4K image generation failed. The model did not return an image.",
                      <<call>>, {})
        ELSE IF ~writeOk
        THEN Returned(ImageErrorText("other"), <<call>>, {})
        ELSE Returned("Successfully generated 4K image with Gemini 3 Pro (preview)",
                      <<call>>, {Written(abs_output_file, "image")})

\* gemini.py 349-474: Imagen 4.0
generate_images(args, env, image_size, outcome, writeOk) ==
    LET num_images == ArgGet(args, "num_images", 1)
        call == ModelCall("generate_images", "imagen-4.0-generate-001",
                          num_images, image_size)
        output_file == ResolveOutput(args.output_file,
                                     env.PYGMALION_OUTPUT_DIR)
    IN  IF outcome \in {"quota", "auth", "other"}
        THEN Returned(ImageErrorText(outcome), <<call>>, {})
        ELSE IF outcome = "empty"
        THEN Returned("Image generation failed.", <<call>>, {})
        ELSE IF ~writeOk
        THEN Returned(ImageErrorText("other"), <<call>>, {})
        ELSE IF num_images = 1
        THEN Returned("Successfully generated image with Gemini Imagen 4.0",
                      <<call>>, {Written(output_file, "image")})
        ELSE Returned("Successfully generated images with Gemini Imagen 4.0",
                      <<call>>,
                      {Written(Numbered(output_file, i), "image") :
                          i \in 1..num_images})

\* gemini.py 290-516
gemini_generate_image(args, env, outcome, writeOk) ==
    IF ~env.GEMINI_AVAILABLE
    THEN Returned("Google Gemini SDK not installed.", <<>>, {})
    ELSE IF ApiKey(env) = <<>>
    THEN Returned("GEMINI_API_KEY or GOOGLE_API_KEY environment variable not set.",
                  <<>>, {})
    ELSE IF "prompt" \notin DOMAIN args \/ "output_file" \notin DOMAIN args
    THEN \* KeyError, caught at 476
         Returned(ImageErrorText("other"), <<>>, {})
    ELSE IF Len(Strip(args.prompt)) < 3
    THEN Returned("Error: Prompt must be at least 3 characters long", <<>>, {})
    ELSE IF ImageSize(args, env) = Size4K
    THEN IF ArgGet(args, "num_images", 1) > 1
         THEN Returned("4K resolution only supports generating 1 image at a time.",
                       <<>>, {})
         ELSE generate_image_4k(args, env, outcome, writeOk)
    ELSE generate_images(args, env, ImageSize(args, env), outcome, writeOk)

(***************************************************************************)
(* gemini_generate_svg  tools/gemini.py 574-782.  The text of the model is  *)
(* a sequence of pieces: "<svg", "</svg>", a code fence (three backquotes), *)
(* a line break, a blank and pieces of text that contain none of these.     *)
(***************************************************************************)
SvgOpen == "<svg"
SvgClose == "</svg>"
Fence == "[fence]"                   \* three backquotes
Newline == "\n"
Blank == " "
Prose == "Here is your logo"
Lang == "svg"
Body == " viewBox='0 0 100 100'><circle r='40'/>"

\* str.startswith for one of the pieces
StartsWith(text, piece) == text # <<>> /\ Head(text) = piece

RECURSIVE SplitLines(_)
\* str.split("\n")
SplitLines(text) ==
    IF \A i \in 1..Len(text) : text[i] # Newline THEN <<text>>
    ELSE LET k == CHOOSE i \in 1..Len(text) :
                      text[i] = Newline /\ \A j \in 1..(i - 1) : text[j] # Newline
         IN  <<SubSeq(text, 1, k - 1)>>
             \o SplitLines(SubSeq(text, k + 1, Len(text)))

RECURSIVE JoinLines(_)
\* "\n".join(lines)
JoinLines(lines) ==
    IF lines = <<>> THEN <<>>
    ELSE IF Len(lines) = 1 THEN lines[1]
    ELSE lines[1] \o <<Newline>> \o JoinLines(Tail(lines))

\* str.find and str.rfind for one of the pieces: a position from 1, or 0
Find(text, piece) ==
    IF \E i \in 1..Len(text) : text[i] = piece
    THEN CHOOSE i \in 1..Len(text) :
            text[i] = piece /\ \A j \in 1..(i - 1) : text[j] # piece
    ELSE 0
RFind(text, piece) ==
    IF \E i \in 1..Len(text) : text[i] = piece
    THEN CHOOSE i \in 1..Len(text) :
            text[i] = piece /\ \A j \in (i + 1)..Len(text) : text[j] # piece
    ELSE 0

\* text[first - 1 : last] of Python, positions from 1
Slice(text, first, last) ==
    IF first <= last THEN SubSeq(text, first, last) ELSE <<>>

\* gemini.py 662-670: the lines after the first, up to the next line that
\* starts with a fence
StripFences(svg_content) ==
    IF StartsWith(svg_content, Fence)
    THEN LET lines == SplitLines(svg_content)
             closing == {i \in 2..Len(lines) : StartsWith(lines[i], Fence)}
             end_idx == IF closing = {} THEN Len(lines)
                        ELSE (CHOOSE i \in closing : \A j \in closing : i <= j) - 1
         IN  Strip(JoinLines(Slice(lines, 2, end_idx)))
    ELSE svg_content

\* gemini.py 659-690: the content to write, or no content (invalid output)
ExtractSvg(text) ==
    LET svg_content == StripFences(Strip(text))
        svg_start == Find(svg_content, SvgOpen)
        svg_end == RFind(svg_content, SvgClose)
    IN  IF StartsWith(svg_content, SvgOpen)
        THEN [valid |-> TRUE, content |-> svg_content]
        ELSE IF svg_start # 0 /\ svg_end # 0
        THEN [valid |-> TRUE, content |-> Slice(svg_content, svg_start, svg_end)]
        ELSE [valid |-> FALSE, content |-> <<>>]

\* gemini.py 735-782: the text the except clause makes of an exception
SvgErrorText(exc) ==
    IF exc = "not found" THEN "Model not found"
    ELSE IF exc = "quota" THEN "Gemini API rate limit exceeded."
    ELSE IF exc = "auth" THEN "Gemini API authentication error."
    ELSE "Gemini SVG generation error"

\* gemini.py 574-782.  outcome: an exception of generate_content, "empty"
\* (no candidates or parts) or "text" with the response
gemini_generate_svg(args, env, outcome, response, writeOk) ==
    LET call == ModelCall("generate_content", "gemini-2.5-flash", 1, <<>>)
    IN
    IF ~env.GEMINI_AVAILABLE
    THEN Returned("Google Gemini SDK not installed.", <<>>, {})
    ELSE IF ApiKey(env) = <<>>
    THEN Returned("GEMINI_API_KEY or GOOGLE_API_KEY environment variable not set.",
                  <<>>, {})
    ELSE IF "prompt" \notin DOMAIN args \/ "output_file" \notin DOMAIN args
    THEN Returned(SvgErrorText("other"), <<>>, {})
    ELSE IF LowerExt(args.output_file.ext) # ".svg"
    THEN Returned("Error: output_file must end with .svg extension", <<>>, {})
    ELSE IF Len(Strip(args.prompt)) < 3
    THEN Returned("Error: Prompt must be at least 3 characters long", <<>>, {})
    ELSE IF outcome \in {"not found", "quota", "auth", "other"}
    THEN Returned(SvgErrorText(outcome), <<call>>, {})
    ELSE IF outcome = "empty"
    THEN Returned("SVG generation failed. The model did not return content.",
                  <<call>>, {})
    ELSE IF ~ExtractSvg(response).valid
    THEN Returned("SVG generation produced invalid output.", <<call>>, {})
    ELSE IF ~writeOk
    THEN Returned(SvgErrorText("other"), <<call>>, {})
    ELSE Returned("Successfully generated SVG with Gemini", <<call>>,
                  {Written(ResolveOutput(args.output_file,
                                         env.PYGMALION_OUTPUT_DIR),
                           ExtractSvg(response).content)})

(***************************************************************************)
(* The generator object of one send() call                                  *)
(***************************************************************************)
Gen(st, pr, bl, pe, cf, lt, er) ==
    [state |-> st,            \* none, created, running, suspended, done, raised, closed
     prompt |-> pr,           \* the argument, until it is passed to query()
     blocks |-> bl,           \* blocks of message.content not yet visited
     pending |-> pe,          \* the ToolUseBlock whose yield is suspended
     created_files |-> cf,
     last_tool_used |-> lt,
     error |-> er]
NoGen == Gen("none", "", <<>>, NoBlock, <<>>, <<>>, None)

SessionInit ==
    /\ working_dir \in {WorkDir, None}
    /\ client = NoClient
    /\ message_count = 0
    /\ is_connected = FALSE
    /\ clientsCreated = 0
    /\ openConns = {}
    /\ outputDirEnv = None
    /\ fs = {}
    /\ gen = NoGen
    /\ emitted = <<>>
    /\ events = <<>>
    /\ toolResults = 0
    /\ endOfTurn = FALSE
    /\ autoOpened = <<>>
    /\ launched = <<>>
    /\ sendCalls = 0
    /\ sendsCompleted = 0
    /\ sendsBroken = 0
    /\ blocksEmitted = 0
    /\ lastConnect = None
    /\ lastOp = Op("init", None, 0)
    /\ mcp_servers = {}

\* main.py 45-50, 211-221 ran in an environment that sets none of the
\* variables: the class body was evaluated and the session constructed
\* A Spinner object (utils/progress.py 28-42), named by its message and by
\* the event of the reply it was made for; NoSpinner is tool_spinner = None
Spinner(message, n) == [message |-> message, n |-> n]
NoSpinner == Spinner("None", 0)

\* run_cli has not been called
NoFrontEnd ==
    /\ cliPc = "none"
    /\ cliMode = None
    /\ sessions = <<>>
    /\ animating = {}
    /\ tool_spinner = NoSpinner
    /\ response_started = FALSE
    /\ rendered = 0
    /\ finalDisconnect = "none"
    /\ cliOp = Op("none", "none", 0)

ConfigResolved ==
    /\ environ = NoEnviron
    /\ dotenv = NoEnviron
    /\ mainPc = "session"
    /\ DEFAULT_TOOLS = DefaultTools(NoEnviron)
    /\ allowed_tools = DefaultTools(NoEnviron)
    /\ autonomy_mode = get_default_autonomy_mode(NoEnviron)
    /\ tools_arg = NoToolsArg
    /\ tools_view = NoToolsView
    /\ NoFrontEnd

\* No adapter is being called
NoToolCall ==
    /\ toolCall = NoCall
    /\ toolResult = NoResult

Init ==
    /\ SessionInit
    /\ ConfigResolved
    /\ NoToolCall
    /\ modeBase = <<>>
    /\ modeInput = <<>>
    /\ modeResult = None

\* connect() and disconnect() are called between turns: the single caller
\* blocks on the streamed reply until the generator ended or was dropped
ConsumerTurn == gen.state \in {"none", "done", "raised", "closed"}

\* A generator that ended is garbage once the consumer goes on to its next
\* call; the record of its turn goes with it
DropGenerator ==
    /\ gen' = NoGen
    /\ emitted' = <<>>
    /\ events' = <<>>
    /\ toolResults' = 0
    /\ endOfTurn' = FALSE
    /\ autoOpened' = <<>>
    /\ launched' = <<>>

(***************************************************************************)
(* connect()  agent.py 406-533                                              *)
(***************************************************************************)
\* Variant: the early return of line 417-419 is missing
AlreadyConnectedIgnored == FALSE

\* agent.py 417: if self._is_connected: return
AlreadyConnected == is_connected

\* Variant: the flag is set before client.connect() is awaited
ConnectedAfterEarly(attemptOk, before) == TRUE

\* agent.py 531-532: the flag is set after client.connect() returned
ConnectedAfter(attemptOk, before) == IF attemptOk THEN TRUE ELSE before

\* agent.py 406-533: connect() has no assignment to self._message_count
CountAfterConnectReset(n) == 0
CountAfterConnect(n) == n

Connect ==
    /\ mainPc = "session"
    /\ ConsumerTurn
    /\ DropGenerator
    /\ IF AlreadyConnected THEN
           /\ lastOp' = Op("connect", "already", 0)
           /\ lastConnect' = "already"
           /\ UNCHANGED <<sessVars, sdkVars, sendCalls, sendsCompleted,
                          sendsBroken, blocksEmitted, restVars>>
       ELSE IF working_dir = None THEN
           \* agent.py 425: os.environ[...] = None raises TypeError
           /\ lastOp' = Op("connect", "TypeError", 0)
           /\ lastConnect' = "TypeError"
           /\ UNCHANGED <<sessVars, sdkVars, sendCalls, sendsCompleted,
                          sendsBroken, blocksEmitted, restVars>>
       ELSE
           /\ clientsCreated < MaxClients
           /\ outputDirEnv' = working_dir
           /\ mcp_servers' = McpServers(environ)
           /\ clientsCreated' = clientsCreated + 1
           /\ client' = clientsCreated + 1
           /\ \E attemptOk \in BOOLEAN :
                /\ is_connected' = ConnectedAfter(attemptOk, is_connected)
                /\ openConns' = IF attemptOk THEN openConns \cup {client'}
                                ELSE openConns
                /\ lastConnect' = IF attemptOk THEN "ok" ELSE "ConnectionError"
                /\ lastOp' = Op("connect", lastConnect', 1)
           /\ message_count' = CountAfterConnect(message_count)
           /\ UNCHANGED <<working_dir, fs, sendCalls, sendsCompleted,
                          sendsBroken, blocksEmitted, restVars>>

(***************************************************************************)
(* disconnect()  agent.py 535-546                                           *)
(***************************************************************************)
\* agent.py 542: if self._client and self._is_connected
ShouldDisconnect == client # NoClient /\ is_connected

Disconnect ==
    /\ mainPc = "session"
    /\ ConsumerTurn
    /\ DropGenerator
    /\ IF ShouldDisconnect THEN
           /\ \/ \* client.disconnect() returned
                 /\ is_connected' = FALSE
                 /\ openConns' = openConns \ {client}
                 /\ lastOp' = Op("disconnect", "ok", 1)
              \/ \* client.disconnect() raised: line 545 is not reached
                 /\ is_connected' = is_connected
                 /\ openConns' \in {openConns, openConns \ {client}}
                 /\ lastOp' = Op("disconnect", "error", 1)
           /\ UNCHANGED <<working_dir, client, message_count, clientsCreated,
                          outputDirEnv, fs, mcp_servers, countVars, restVars>>
       ELSE
           /\ lastOp' = Op("disconnect", "noop", 0)
           /\ UNCHANGED <<sessVars, sdkVars, countVars, restVars>>


(***************************************************************************)
(* send()  agent.py 595-756.  send is an async generator: the call creates  *)
(* the generator object, each __anext__ of the consumer runs its body up to *)
(* the next yield, and the body waits for the SDK between messages.         *)
(***************************************************************************)
SendCall ==
    /\ gen.state \in {"none", "done", "raised", "closed"}
    /\ sendCalls < MaxSends
    /\ \E prompt \in Prompts :
         gen' = Gen("created", prompt, <<>>, NoBlock, <<>>, <<>>, None)
    /\ sendCalls' = sendCalls + 1
    /\ emitted' = <<>>
    /\ events' = <<>>
    /\ toolResults' = 0
    /\ endOfTurn' = FALSE
    /\ autoOpened' = <<>>
    /\ launched' = <<>>
    /\ lastOp' = Op("send", "generator", 0)
    /\ UNCHANGED <<sessVars, sdkVars, sendsCompleted, sendsBroken, blocksEmitted,
                   lastConnect,
                   restVars>>

\* Variant: only the client reference is tested
NotConnectedClientOnly == client = NoClient

\* agent.py 624: if not self._is_connected or not self._client
NotConnected == ~is_connected \/ client = NoClient

\* Variant: the increment is lost
CountAfterQueryLost(n) == n

\* agent.py 637: self._message_count += 1
CountAfterQuery(n) == n + 1

\* Variant: the prompt is counted before query() has returned
CountAfterQueryErrorCounted(n) == n + 1

\* agent.py 636-637: an exception of query() leaves line 637 unexecuted
CountAfterQueryError(n) == n

\* Variant: a tracked file is opened as soon as it is tracked
TrackStepOpening(created, b, wd, files) ==
    [created |-> created \o TrackedFiles(b, wd, files),
     opened |-> TrackedFiles(b, wd, files)]

\* agent.py 654-709: the tracking code of a ToolUseBlock, run when the
\* generator is resumed after the yield of line 652; it opens nothing
TrackStep(created, b, wd, files) ==
    [created |-> created \o TrackedFiles(b, wd, files), opened |-> <<>>]

\* First __anext__: lines 624-637
NextStart ==
    /\ gen.state = "created"
    /\ IF NotConnected THEN
           /\ gen' = [gen EXCEPT !.state = "raised", !.error = "RuntimeError"]
           /\ lastOp' = Op("next", "RuntimeError", 0)
           /\ UNCHANGED <<sessVars, sdkVars, turnVars, countVars, restVars>>
       ELSE
           \/ \* client.query(prompt) raised
              /\ gen' = [gen EXCEPT !.state = "raised", !.error = "QueryError"]
              /\ lastOp' = Op("next", "QueryError", 1)
              /\ message_count' = CountAfterQueryError(message_count)
              /\ UNCHANGED <<working_dir, client, is_connected, sdkVars,
                             turnVars, countVars, restVars>>
           \/ \* client.query(prompt) returned
              /\ client \in openConns
              /\ message_count' = CountAfterQuery(message_count)
              \* prompt is not read after line 636
              /\ gen' = [gen EXCEPT !.state = "running", !.prompt = ""]
              /\ lastOp' = Op("next", "queried", 1)
              /\ UNCHANGED <<working_dir, client, is_connected, sdkVars,
                             turnVars, countVars, restVars>>

\* A later __anext__: the body continues after the yield
NextResume ==
    /\ gen.state = "suspended"
    /\ LET step == IF gen.pending = NoBlock
                   THEN [created |-> gen.created_files, opened |-> <<>>]
                   ELSE TrackStep(gen.created_files, gen.pending, working_dir, fs)
       IN /\ gen' = [gen EXCEPT !.state = "running", !.pending = NoBlock,
                                !.created_files = step.created]
          /\ autoOpened' = autoOpened \o step.opened
          /\ launched' = launched \o AutoOpenAll(step.opened, fs)
    /\ lastOp' = Op("next", "resume", 0)
    /\ UNCHANGED <<sessVars, sdkVars, emitted, events, toolResults, endOfTurn,
                   countVars, restVars>>

\* The consumer drops the generator (break, exception in the loop body):
\* GeneratorExit is raised at the yield and the rest of send() is skipped
Abandon ==
    /\ gen.state \in {"created", "suspended"}
    /\ gen' = [gen EXCEPT !.state = "closed"]
    /\ sendsBroken' = IF gen.state = "suspended" THEN sendsBroken + 1
                      ELSE sendsBroken
    /\ lastOp' = Op("aclose", gen.state, 0)
    /\ UNCHANGED <<sessVars, sdkVars, turnVars, sendCalls, sendsCompleted,
                   blocksEmitted, lastConnect, restVars>>

\* Non-empty content lists of at most n blocks
ContentLists(n) == UNION {[1..k -> Blocks] : k \in 1..n}

RECURSIVE LastToolUse(_)
\* The latest ToolUseBlock of a list of blocks (NoBlock when there is none)
LastToolUse(bs) ==
    IF bs = <<>> THEN NoBlock
    ELSE IF bs[Len(bs)].kind = "tool_use" THEN bs[Len(bs)]
    ELSE LastToolUse(SubSeq(bs, 1, Len(bs) - 1))

ToolUses(bs) == SelectSeq(bs, LAMBDA b : b.kind = "tool_use")

\* The file a tool run writes, when it writes one: the built-in Write and
\* Edit write file_path, the adapters write output_file
ToolOutput(b) ==
    IF b.name \in {Builtin("Write"), Builtin("Edit")} THEN b.input.file_path
    ELSE b.input.output_file


Receiving ==
    /\ gen.state = "running"
    /\ gen.blocks = <<>>

\* agent.py 641-643: the next message is an AssistantMessage
RecvAssistant ==
    /\ Receiving
    /\ client \in openConns
    /\ \E content \in ContentLists(MaxBlocks - blocksEmitted) :
         /\ gen' = [gen EXCEPT !.blocks = content]
         /\ emitted' = emitted \o content
         /\ blocksEmitted' = blocksEmitted + Len(content)
    /\ lastOp' = Op("recv", "AssistantMessage", 0)
    /\ UNCHANGED <<sessVars, sdkVars, events, toolResults, endOfTurn,
                   autoOpened, launched, sendCalls, sendsCompleted,
                   sendsBroken, lastConnect, restVars>>

\* agent.py 712-752: the next message is a UserMessage holding the
\* ToolResultBlock of the tool that ran; the tool may have written a file.
\* After mcp__grok__generate_image the images of the result are downloaded.
RecvUser ==
    /\ Receiving
    /\ client \in openConns
    /\ toolResults < Len(ToolUses(emitted))
    /\ toolResults' = toolResults + 1
    /\ \E written \in {{}} \cup {{AbsPath(working_dir, ToolOutput(LastToolUse(emitted)))}
                                 \ {AbsPath(working_dir, NoPath)}} :
         IF gen.last_tool_used = Mcp("grok", "generate_image") THEN
             \E images \in 0..1, downloadOk \in BOOLEAN :
                IF images = 1 /\ downloadOk THEN
                    /\ fs' = fs \cup written \cup {AbsPath(working_dir, GrokImage1)}
                    /\ gen' = [gen EXCEPT !.created_files =
                                    Append(@, AbsPath(working_dir, GrokImage1))]
                ELSE
                    /\ fs' = fs \cup written
                    /\ gen' = gen
         ELSE
             /\ fs' = fs \cup written
             /\ gen' = gen
    /\ lastOp' = Op("recv", "UserMessage", 0)
    /\ UNCHANGED <<sessVars, clientsCreated, openConns, outputDirEnv, mcp_servers, emitted, events, endOfTurn,
                   autoOpened, launched, countVars, restVars>>

\* agent.py 641: receive_response() raised (transport error, closed client)
RecvError ==
    /\ Receiving
    /\ gen' = [gen EXCEPT !.state = "raised", !.error = "StreamError"]
    /\ sendsBroken' = sendsBroken + 1
    /\ lastOp' = Op("recv", "error", 0)
    /\ UNCHANGED <<sessVars, sdkVars, turnVars, sendCalls, sendsCompleted,
                   blocksEmitted, lastConnect, restVars>>

\* agent.py 641, 754-756: receive_response() is exhausted (the agent
\* signalled end-of-turn); the files tracked in this turn are auto-opened
\* and the generator ends
RecvEnd ==
    /\ Receiving
    /\ client \in openConns
    /\ endOfTurn' = TRUE
    /\ autoOpened' = autoOpened \o gen.created_files
    /\ launched' = launched \o AutoOpenAll(gen.created_files, fs)
    /\ gen' = [gen EXCEPT !.state = "done"]
    /\ sendsCompleted' = sendsCompleted + 1
    /\ lastOp' = Op("recv", "end", 0)
    /\ UNCHANGED <<sessVars, sdkVars, emitted, events, toolResults, sendCalls,
                   sendsBroken, blocksEmitted, lastConnect, restVars>>

\* agent.py 644-652, 710-711: visit the next block of message.content
VisitBlock ==
    /\ gen.state = "running"
    /\ gen.blocks # <<>>
    /\ LET b == Head(gen.blocks) IN
         IF BlockEvent(b) = <<>> THEN
             /\ gen' = [gen EXCEPT !.blocks = Tail(@)]
             /\ events' = events
             /\ lastOp' = Op("visit", "skip", 0)
         ELSE
             /\ events' = Append(events, BlockEvent(b))
             /\ gen' = [gen EXCEPT !.blocks = Tail(@),
                          !.state = "suspended",
                          !.pending = IF b.kind = "tool_use" THEN b ELSE NoBlock,
                          !.last_tool_used = IF b.kind = "tool_use" THEN b.name
                                             ELSE @]
             /\ lastOp' = Op("visit", "yield", 0)
    /\ UNCHANGED <<sessVars, sdkVars, emitted, toolResults, endOfTurn,
                   autoOpened, launched, countVars, restVars>>

InitMode ==
    /\ SessionInit
    /\ ConfigResolved
    /\ NoToolCall
    /\ \E word \in BaseWords :
         \E ups \in Flips(Len(word), MaxCaseFlips) \cup {1..Len(word)} :
            /\ modeBase = word
            /\ modeInput = CaseVariant(word, ups)
    /\ modeResult = None

FromString ==
    /\ modeResult = None
    /\ modeResult' = from_string(modeInput)
    /\ lastOp' = Op("from_string", modeResult', 0)
    /\ UNCHANGED <<sessVars, sdkVars, gen, turnVars, countVars, modeBase,
                   modeInput, cfgVars, toolVars, cliVars>>

NextMode == FromString

SpecMode == InitMode /\ [][NextMode]_vars

(***************************************************************************)
(* Start-up of the command line  main.py 45-50, 211-221: the .env file is   *)
(* loaded, agent.py is imported (which evaluates DEFAULT_TOOLS), and the    *)
(* session is constructed with the mode resolved from the environment.      *)
(***************************************************************************)
\* Values of PYGMALION_AUTONOMY_MODE: a word that has no outer whitespace, in
\* lower or upper case, between two paddings
ConfigWords == {w \in BaseWords : Strip(w) = w}
Paddings == {<<>>, <<" ">>, <<"\n">>}
\* Values of the enable flags and of the credentials
TruthyFlagInputs ==
    {TrueStr, <<"T", "R", "U", "E">>, Str1("1"), <<"Y", "e", "s">>,
     <<"o", "n">>}
FalsyFlagInputs ==
    {Unset, <<>>, <<"f", "a", "l", "s", "e">>, Str1("0"), Str1("t"),
     <<" ", "t", "r", "u", "e">>}
PresentCredentials == {Str1("k"), <<" ", "k", " ">>}
BlankCredentials == {Unset, <<>>, <<" ", " ">>}

InitConfig ==
    /\ SessionInit
    /\ mainPc = "start"
    /\ DEFAULT_TOOLS = <<>>
    /\ allowed_tools = <<>>
    /\ autonomy_mode = None
    /\ tools_arg = NoToolsArg
    /\ tools_view = NoToolsView
    /\ NoFrontEnd
    /\ modeResult = None
    /\ toolCall = NoCall
    /\ toolResult = NoResult
    /\ \/ \* the autonomy mode is set in the environment or in the .env file
          \E word \in ConfigWords, lead \in Paddings, trail \in Paddings :
            \E ups \in {{}, 1..Len(word)}, inFile \in BOOLEAN :
               /\ modeBase = word
               /\ modeInput = lead \o CaseVariant(word, ups) \o trail
               /\ environ = Environ(IF inFile THEN Unset ELSE modeInput,
                                    Unset, Unset, Unset, Unset)
               /\ dotenv = Environ(IF inFile THEN modeInput ELSE AutoStr,
                                   Unset, Unset, Unset, Unset)
       \/ \* the integrations are configured
          /\ modeBase = <<>>
          /\ modeInput = <<>>
          /\ \E gflag \in TruthyFlagInputs \cup FalsyFlagInputs,
                gkey \in PresentCredentials \cup BlankCredentials,
                fflag \in {Unset, TrueStr, <<"o", "f", "f">>},
                ftoken \in {Unset, Str1("k"), <<" ">>},
                fileKey \in {Unset, Str1("k")} :
               /\ environ = Environ(Unset, gflag, gkey, fflag, ftoken)
               /\ dotenv = Environ(Unset, Unset, fileKey, Unset, Unset)

\* main.py 48: load_dotenv() sets the variables the environment lacks
LoadDotenv ==
    /\ mainPc = "start"
    /\ mainPc' = "dotenv"
    /\ environ' = [n \in DOMAIN environ |->
                     IF environ[n] = Unset THEN dotenv[n] ELSE environ[n]]
    /\ lastOp' = Op("load_dotenv", None, 0)
    /\ UNCHANGED <<sessVars, sdkVars, gen, turnVars, countVars, modeVars,
                   dotenv, DEFAULT_TOOLS, allowed_tools, autonomy_mode,
                   tools_arg, tools_view, toolVars, cliVars>>

\* main.py 50: the import runs the class body of DesignSession
ImportAgent ==
    /\ mainPc = "dotenv"
    /\ mainPc' = "imported"
    /\ DEFAULT_TOOLS' = DefaultTools(environ)
    /\ lastOp' = Op("import", None, 0)
    /\ UNCHANGED <<sessVars, sdkVars, gen, turnVars, countVars, modeVars,
                   environ, dotenv, allowed_tools, autonomy_mode, tools_arg,
                   tools_view, toolVars, cliVars>>

\* main.py 211, 221 and agent.py 339-341
NewSession ==
    /\ mainPc = "imported"
    /\ mainPc' = "session"
    /\ autonomy_mode' = get_default_autonomy_mode(environ)
    /\ allowed_tools' = DEFAULT_TOOLS
    /\ lastOp' = Op("DesignSession", autonomy_mode', 0)
    /\ UNCHANGED <<sessVars, sdkVars, gen, turnVars, countVars, modeVars,
                   environ, dotenv, DEFAULT_TOOLS, tools_arg, tools_view,
                   toolVars, cliVars>>

NextConfig ==
    \/ LoadDotenv
    \/ ImportAgent
    \/ NewSession
    \/ Connect
    \/ Disconnect

SpecConfig == InitConfig /\ [][NextConfig]_vars


(***************************************************************************)
(* The Gemini tools called with bounded arguments, environments and model   *)
(* responses                                                                *)
(***************************************************************************)
RedFox == <<"r", "e", "d", " ", "f", "o", "x">>
ShortPrompt == <<" ", "a", "b", " ">>
ElsewherePng == AbsPath("/elsewhere", BannerPng)
ElsewhereSvg == AbsPath("/elsewhere", LogoSvg)

\* The args dicts: the required keys, then any of the optional ones
ImageArgs ==
    LET required == {[prompt |-> pr, output_file |-> o] :
                        pr \in {RedFox, ShortPrompt},
                        o \in {BannerPng, ElsewherePng}}
                    \cup {[prompt |-> RedFox], [output_file |-> BannerPng]}
        number == {<<>>} \cup {[num_images |-> n] : n \in {1, 2}}
        size == {<<>>} \cup {[image_size |-> z] :
                                z \in {Size1K, Size4K, <<"8", "K">>}}
    IN  {r @@ n @@ z : r \in required, n \in number, z \in size}

GeminiEnvs ==
    {GeminiEnv(sdk, key, Unset, z, d) :
        sdk \in BOOLEAN, key \in {Unset, Str1("k")},
        z \in {Unset, <<>>, <<"1", "k">>, Size2K, Size4K, <<"8", "K">>},
        d \in {None, WorkDir}}
    \cup {GeminiEnv(TRUE, <<>>, Str1("g"), Unset, WorkDir)}

NoShape == [span |-> <<>>, fence |-> "none", before |-> <<>>, after |-> <<>>]
ImageCalls ==
    {ToolCall("gemini_generate_image", a, e,
              [outcome |-> o, writeOk |-> w, response |-> <<>>,
               shape |-> NoShape]) :
        a \in ImageArgs, e \in GeminiEnvs,
        o \in {"images", "empty", "quota", "other"}, w \in BOOLEAN}

\* Responses that hold one span: bare or between code fences, with or
\* without text before and after
Spans == {<<SvgOpen, Body, SvgClose>>,
          <<SvgOpen, Body, Newline, Body, SvgClose>>}
Fenced(span, fence) ==
    IF fence = "lines"
    THEN <<Fence, Newline>> \o span \o <<Newline, Fence>>
    ELSE IF fence = "lang"
    THEN <<Fence, Lang, Newline>> \o span \o <<Newline, Fence>>
    ELSE IF fence = "inline" THEN <<Fence>> \o span \o <<Fence>>
    ELSE span
Shapes ==
    [span : Spans, fence : {"none", "lines", "lang", "inline"},
     before : {<<>>, <<Newline, Blank>>, <<Prose, Newline>>},
     after : {<<>>, <<Blank, Newline>>, <<Newline, Prose>>}]
ShapeText(shape) ==
    shape.before \o Fenced(shape.span, shape.fence) \o shape.after
\* Responses that hold no span
NoSpanTexts ==
    {<<>>, <<Prose>>, <<SvgOpen, Body>>, <<Body, SvgClose>>,
     <<Prose, SvgOpen, Body>>, <<SvgClose, Prose, SvgOpen>>,
     <<Fence, Newline, Prose, Newline, Fence>>}

SvgArgs ==
    {[prompt |-> pr, output_file |-> o] :
        pr \in {RedFox, ShortPrompt},
        o \in {LogoSvg, File("logo", ".SVG"), ElsewhereSvg, BannerPng}}
    \cup {[prompt |-> RedFox], [output_file |-> LogoSvg]}
SvgEnvs == {e \in GeminiEnvs : e.PYGMALION_GEMINI_IMAGE_SIZE = Unset}
SvgCalls ==
    {ToolCall("gemini_generate_svg", a, e,
              [outcome |-> "text", writeOk |-> w, response |-> ShapeText(sh),
               shape |-> sh]) :
        a \in SvgArgs, e \in SvgEnvs, w \in BOOLEAN, sh \in Shapes}
    \cup
    {ToolCall("gemini_generate_svg", a, e,
              [outcome |-> "text", writeOk |-> w, response |-> t,
               shape |-> NoShape]) :
        a \in SvgArgs, e \in SvgEnvs, w \in BOOLEAN, t \in NoSpanTexts}
    \cup
    {ToolCall("gemini_generate_svg", a, e,
              [outcome |-> o, writeOk |-> TRUE, response |-> <<>>,
               shape |-> NoShape]) :
        a \in SvgArgs, e \in SvgEnvs,
        o \in {"empty", "not found", "quota", "auth", "other"}}

InitGemini ==
    /\ SessionInit
    /\ ConfigResolved
    /\ modeBase = <<>>
    /\ modeInput = <<>>
    /\ modeResult = None
    /\ toolCall \in ImageCalls \cup SvgCalls
    /\ toolResult = NoResult

GeminiGenerateImage ==
    /\ toolCall.tool = "gemini_generate_image"
    /\ toolResult.state = "pending"
    /\ toolResult' = gemini_generate_image(toolCall.args, toolCall.env,
                                           toolCall.found.outcome,
                                           toolCall.found.writeOk)
    /\ lastOp' = Op("gemini_generate_image", toolResult'.state, 0)
    /\ UNCHANGED <<sessVars, sdkVars, gen, turnVars, countVars, modeVars,
                   cfgVars, toolCall, cliVars>>

GeminiGenerateSvg ==
    /\ toolCall.tool = "gemini_generate_svg"
    /\ toolResult.state = "pending"
    /\ toolResult' = gemini_generate_svg(toolCall.args, toolCall.env,
                                         toolCall.found.outcome,
                                         toolCall.found.response,
                                         toolCall.found.writeOk)
    /\ lastOp' = Op("gemini_generate_svg", toolResult'.state, 0)
    /\ UNCHANGED <<sessVars, sdkVars, gen, turnVars, countVars, modeVars,
                   cfgVars, toolCall, cliVars>>

NextGemini ==
    \/ GeminiGenerateImage
    \/ GeminiGenerateSvg

SpecGemini == InitGemini /\ [][NextGemini]_vars

(***************************************************************************)
(* The adapters that run an external program  tools/inkscape.py,            *)
(* imagemagick.py, gimp.py, potrace.py, weasyprint.py.  What a call finds:  *)
(* files, the absolute paths that exist before the call; installed, the     *)
(* programs on PATH and the libraries that import; proc, how the external   *)
(* program ends when it is started; pre and post, how the conversion before *)
(* potrace and the optimization after it end.  The adapters hand the paths  *)
(* of args to os.path.exists and to the program as they are, so a relative  *)
(* path is one under the current directory of the process.                  *)
(***************************************************************************)
Found(files, installed, proc, pre, post) ==
    [files |-> files, installed |-> installed, proc |-> proc, pre |-> pre,
     post |-> post]

\* How a started program ends: exit status 0 with or without the output
\* written, a non-zero exit status, TimeoutExpired, another exception
ProcOutcomes == {"exit0_written", "exit0", "exit1", "timeout", "oserror"}
returncode(proc) == IF proc \in {"exit0_written", "exit0"} THEN 0 ELSE 1

\* The path the operating system uses for a path given as it is
ProcessPath(path) == IF IsAbs(path) THEN path ELSE AbsPath(Cwd, path)

\* os.path.exists(path) before the call, and after the program has run
Exists(found, path) == ProcessPath(path) \in found.files
ExistsAfter(found, path) ==
    Exists(found, path) \/ found.proc = "exit0_written"

\* The file the program leaves behind
ProcessWrites(found, output) ==
    IF found.proc = "exit0_written"
    THEN {Written(ProcessPath(output), "output")} ELSE {}

\* inkscape.py 136-197 (and 483-539, imagemagick.py 176-227, 320-366,
\* 538-584, 743-789): subprocess.run, then success if the exit status is 0
\* and the output exists; the except clauses for TimeoutExpired,
\* FileNotFoundError (the program is not installed) and Exception
RunChecked(found, program, output, okText, failText, timeoutText, missingText, errorText) ==
    IF program \notin found.installed THEN Returned(missingText, <<>>, {})
    ELSE IF found.proc = "timeout" THEN Returned(timeoutText, <<program>>, {})
    ELSE IF found.proc = "oserror" THEN Returned(errorText, <<program>>, {})
    ELSE IF returncode(found.proc) = 0 /\ ExistsAfter(found, output)
    THEN Returned(okText, <<program>>, ProcessWrites(found, output))
    ELSE Returned(failText, <<program>>, {})

\* inkscape.py 259-301, gimp.py 236-270: subprocess.Popen of the GUI
RunGui(found, program, okText, missingText, errorText) ==
    IF program \notin found.installed THEN Returned(missingText, <<>>, {})
    ELSE IF found.proc = "oserror" THEN Returned(errorText, <<>>, {})
    ELSE Returned(okText, <<program>>, {})

\* gimp.py 87-118: the exit status of the program is not looked at
run_gimp_batch(found) ==
    IF "gimp" \notin found.installed
    THEN [success |-> FALSE, error |-> "GIMP not found. Please install GIMP",
          calls |-> <<>>]
    ELSE IF found.proc = "timeout"
    THEN [success |-> FALSE, error |-> "GIMP operation timed out",
          calls |-> <<"gimp">>]
    ELSE IF found.proc = "oserror"
    THEN [success |-> FALSE, error |-> "OSError", calls |-> <<"gimp">>]
    ELSE [success |-> TRUE, error |-> "", calls |-> <<"gimp">>]

\* gimp.py 121-192; okText is the text after the replacement of 414-417,
\* 535-539
execute_gimp_script(input_file, output_file, found, okText) ==
    IF ~Exists(found, input_file)
    THEN Returned("Error: Input file not found", <<>>, {})
    ELSE LET result == run_gimp_batch(found)
         IN  IF ~result.success
             THEN Returned("GIMP script failed: " \o result.error,
                           result.calls, {})
             ELSE IF ExistsAfter(found, output_file)
             THEN Returned(okText, result.calls,
                           ProcessWrites(found, output_file))
             ELSE Returned("GIMP script failed: Unknown error",
                           result.calls, {})

(***************************************************************************)
(* The adapters called with bounded arguments, in a process whose current   *)
(* directory is Cwd, by a session whose working directory connect() has put *)
(* into PYGMALION_OUTPUT_DIR (agent.py 425)                                 *)
(***************************************************************************)
AdapterTools ==
    {"export_svg", "open_in_inkscape", "query_svg", "convert_svg",
     "image_resize", "image_convert", "image_effects", "image_composite",
     "open_in_gimp", "gimp_script", "gimp_filter", "gimp_text",
     "gimp_composite", "trace_bitmap", "html_to_pdf"}

\* The program or library an adapter needs, and the server that offers it
AdapterProgram(tool) ==
    IF tool \in {"export_svg", "open_in_inkscape", "query_svg", "convert_svg"}
    THEN "inkscape"
    ELSE IF tool \in {"image_resize", "image_convert", "image_effects",
                      "image_composite"}
    THEN "convert"
    ELSE IF tool \in {"open_in_gimp", "gimp_script", "gimp_filter",
                      "gimp_text", "gimp_composite"}
    THEN "gimp"
    ELSE IF tool = "trace_bitmap" THEN "potrace"
    ELSE "weasyprint"

AdapterServer(tool) ==
    IF AdapterProgram(tool) = "convert" THEN "imagemagick"
    ELSE AdapterProgram(tool)

\* The args dicts of a tool: dicts with its required paths, dicts that lack
\* one of them, and any of its other keys
AdapterArgs(tool) ==
    LET photo == File("photo", ".png")
        outputs == {File("out", ".svg"), File("out", ".png"),
                    AbsPath(WorkDir, File("out", ".svg"))}
        inOut == {[input_file |-> photo, output_file |-> o] : o \in outputs}
                 \cup {[input_file |-> photo],
                       [output_file |-> File("out", ".svg")]}
        filePath == {[file_path |-> p] : p \in {photo, File("out", ".svg")}}
                    \cup {<<>>}
        composite ==
            {[base_image |-> photo, overlay_image |-> File("overlay", ".png"),
              output_file |-> o] : o \in outputs}
            \cup {[base_image |-> photo, output_file |-> File("out", ".png")]}
    IN  IF tool \in {"export_svg", "convert_svg", "image_convert"} THEN inOut
        ELSE IF tool \in {"open_in_inkscape", "open_in_gimp"} THEN filePath
        ELSE IF tool = "query_svg"
        THEN {a @@ q : a \in filePath,
                       q \in {<<>>, [query_type |-> "objects"],
                              [query_type |-> "all"]}}
        ELSE IF tool = "image_resize"
        THEN {a @@ w : a \in inOut, w \in {<<>>, [width |-> "64"]}}
        ELSE IF tool = "image_effects"
        THEN {a @@ g : a \in inOut, g \in {<<>>, [grayscale |-> TRUE]}}
        ELSE IF tool \in {"image_composite", "gimp_composite"} THEN composite
        ELSE IF tool = "gimp_script"
        THEN {a @@ s : a \in inOut, s \in {<<>>, [script |-> "(invert)"]}}
        ELSE IF tool = "gimp_filter"
        THEN {a @@ f : a \in inOut,
                       f \in {<<>>, [filter |-> "blur"], [filter |-> "emboss"]}}
        ELSE IF tool = "gimp_text"
        THEN {a @@ t : a \in inOut, t \in {<<>>, [text |-> "Hello"]}}
        ELSE IF tool = "trace_bitmap"
        THEN {a @@ t : a \in inOut, t \in {<<>>, [tight_bounds |-> FALSE]}}
        ELSE {a @@ c : a \in inOut,
                       c \in {<<>>, [css_file |-> File("style", ".css")]}}

InitAdapters ==
    /\ SessionInit
    /\ ConfigResolved
    /\ modeBase = <<>>
    /\ modeInput = <<>>
    /\ modeResult = None
    /\ \E tool \in AdapterTools, wd \in {Cwd, WorkDir} :
       \E a \in AdapterArgs(tool),
          present \in SUBSET {AbsPath(Cwd, File("photo", ".png")),
                              AbsPath(Cwd, File("overlay", ".png")),
                              AbsPath(Cwd, File("out", ".svg"))},
          ins \in IF tool = "trace_bitmap"
                  THEN SUBSET {"potrace", "convert", "inkscape"}
                  ELSE SUBSET {AdapterProgram(tool)},
          proc \in ProcOutcomes,
          pre \in IF tool = "trace_bitmap"
                  THEN {"exit0", "exit1", "timeout"} ELSE {"exit0"},
          post \in IF tool = "trace_bitmap"
                   THEN {"exit0_written", "exit1", "timeout"} ELSE {"exit0"} :
            toolCall = ToolCall(tool, a, [PYGMALION_OUTPUT_DIR |-> wd],
                                Found(present, ins, proc, pre, post))
    /\ toolResult = NoResult

\* One call of the adapter named tool, which ends as result
AdapterCall(tool, result) ==
    /\ toolCall.tool = tool
    /\ toolResult.state = "pending"
    /\ toolResult' = result
    /\ lastOp' = Op(tool, toolResult'.state, 0)
    /\ UNCHANGED <<sessVars, sdkVars, gen, turnVars, countVars, modeVars,
                   cfgVars, toolCall, cliVars>>

\* inkscape.py 97-197
export_svg ==
    LET args == toolCall.args
        found == toolCall.found
    IN  AdapterCall("export_svg",
          IF ~({"input_file", "output_file"} \subseteq DOMAIN args)
          THEN Returned("Export error: KeyError", <<>>, {})
          ELSE IF ~Exists(found, args.input_file)
          THEN Returned("Error: Input file not found", <<>>, {})
          ELSE RunChecked(found, "inkscape", args.output_file,
                          "Successfully exported", "Export failed",
                          "Export operation timed out (60 second limit)",
                          "Inkscape not found. Please install Inkscape",
                          "Export error"))

\* inkscape.py 221-301
open_in_inkscape ==
    LET args == toolCall.args
        found == toolCall.found
    IN  AdapterCall("open_in_inkscape",
          IF "file_path" \notin DOMAIN args
          THEN Returned("Failed to open Inkscape: KeyError", <<>>, {})
          ELSE IF ~Exists(found, args.file_path)
          THEN Returned("Error: File not found", <<>>, {})
          ELSE IF LowerExt(args.file_path.ext) # ".svg"
          THEN Returned("Warning: File may not be an SVG", <<>>, {})
          ELSE RunGui(found, "inkscape", "Opened in Inkscape GUI",
                      "Inkscape not found. Please install Inkscape",
                      "Failed to open Inkscape"))

\* inkscape.py 329-427: the queries' exit statuses only change the report
query_svg ==
    LET args == toolCall.args
        found == toolCall.found
        query_type == ArgGet(args, "query_type", "dimensions")
    IN  AdapterCall("query_svg",
          IF "file_path" \notin DOMAIN args
          THEN Returned("Query error: KeyError", <<>>, {})
          ELSE IF ~Exists(found, args.file_path)
          THEN Returned("Error: File not found", <<>>, {})
          ELSE IF "inkscape" \notin found.installed
          THEN Returned("Inkscape not found. Please install Inkscape", <<>>, {})
          ELSE IF found.proc = "timeout"
          THEN Returned("Query operation timed out", <<"inkscape">>, {})
          ELSE IF found.proc = "oserror"
          THEN Returned("Query error", <<"inkscape">>, {})
          ELSE Returned("SVG Query",
                        IF query_type = "dimensions"
                        THEN <<"inkscape", "inkscape">>
                        ELSE IF query_type = "objects" THEN <<"inkscape">>
                        ELSE <<"inkscape", "inkscape", "inkscape">>, {}))

\* inkscape.py 458-539
convert_svg ==
    LET args == toolCall.args
        found == toolCall.found
    IN  AdapterCall("convert_svg",
          IF ~({"input_file", "output_file"} \subseteq DOMAIN args)
          THEN Returned("Conversion error: KeyError", <<>>, {})
          ELSE IF ~Exists(found, args.input_file)
          THEN Returned("Error: Input file not found", <<>>, {})
          ELSE RunChecked(found, "inkscape", args.output_file,
                          "Successfully converted SVG", "Conversion failed",
                          "Conversion operation timed out",
                          "Inkscape not found. Please install Inkscape",
                          "Conversion error"))

\* imagemagick.py 94-227
image_resize ==
    LET args == toolCall.args
        found == toolCall.found
    IN  AdapterCall("image_resize",
          IF ~({"input_file", "output_file"} \subseteq DOMAIN args)
          THEN Returned("Resize error: KeyError", <<>>, {})
          ELSE IF ~Exists(found, args.input_file)
          THEN Returned("Error: Input file not found", <<>>, {})
          ELSE IF {"width", "height"} \cap DOMAIN args = {}
          THEN Returned("Error: Must specify width and/or height", <<>>, {})
          ELSE RunChecked(found, "convert", args.output_file,
                          "Successfully resized image", "Resize failed",
                          "Resize operation timed out",
                          "ImageMagick not found. Please install ImageMagick",
                          "Resize error"))

\* imagemagick.py 268-366
image_convert ==
    LET args == toolCall.args
        found == toolCall.found
    IN  AdapterCall("image_convert",
          IF ~({"input_file", "output_file"} \subseteq DOMAIN args)
          THEN Returned("Conversion error: KeyError", <<>>, {})
          ELSE IF ~Exists(found, args.input_file)
          THEN Returned("Error: Input file not found", <<>>, {})
          ELSE RunChecked(found, "convert", args.output_file,
                          "Successfully converted image", "Conversion failed",
                          "Conversion operation timed out",
                          "ImageMagick not found. Please install ImageMagick",
                          "Conversion error"))

\* imagemagick.py 446-584
image_effects ==
    LET args == toolCall.args
        found == toolCall.found
    IN  AdapterCall("image_effects",
          IF ~({"input_file", "output_file"} \subseteq DOMAIN args)
          THEN Returned("Effects error: KeyError", <<>>, {})
          ELSE IF ~Exists(found, args.input_file)
          THEN Returned("Error: Input file not found", <<>>, {})
          ELSE IF ~ArgGet(args, "grayscale", FALSE)
          THEN Returned("No effects specified. Use blur, sharpen, brightness, etc.",
                        <<>>, {})
          ELSE RunChecked(found, "convert", args.output_file,
                          "Successfully applied effects", "Effects failed",
                          "Effects operation timed out",
                          "ImageMagick not found. Please install ImageMagick",
                          "Effects error"))

\* imagemagick.py 660-789
image_composite ==
    LET args == toolCall.args
        found == toolCall.found
    IN  AdapterCall("image_composite",
          IF ~({"base_image", "overlay_image", "output_file"}
                  \subseteq DOMAIN args)
          THEN Returned("Composite error: KeyError", <<>>, {})
          ELSE IF ~Exists(found, args.base_image)
          THEN Returned("Error: Base image not found", <<>>, {})
          ELSE IF ~Exists(found, args.overlay_image)
          THEN Returned("Error: Overlay image not found", <<>>, {})
          ELSE RunChecked(found, "convert", args.output_file,
                          "Successfully composited images", "Composite failed",
                          "Composite operation timed out",
                          "ImageMagick not found. Please install ImageMagick",
                          "Composite error"))

\* gimp.py 216-270
open_in_gimp ==
    LET args == toolCall.args
        found == toolCall.found
    IN  AdapterCall("open_in_gimp",
          IF "file_path" \notin DOMAIN args
          THEN Returned("Error opening GIMP: KeyError", <<>>, {})
          ELSE IF ~Exists(found, args.file_path)
          THEN Returned("Error: File not found", <<>>, {})
          ELSE RunGui(found, "gimp", "Opened in GIMP",
                      "GIMP not found. Please install GIMP",
                      "Error opening GIMP"))

\* gimp.py 310-328
gimp_script ==
    LET args == toolCall.args
        found == toolCall.found
    IN  AdapterCall("gimp_script",
          IF ~({"input_file", "output_file", "script"} \subseteq DOMAIN args)
          THEN Returned("GIMP script error: KeyError", <<>>, {})
          ELSE execute_gimp_script(args.input_file, args.output_file, found,
                                   "Successfully executed GIMP script"))

\* gimp.py 371-429
gimp_filter ==
    LET args == toolCall.args
        found == toolCall.found
    IN  AdapterCall("gimp_filter",
          IF ~({"input_file", "output_file", "filter"} \subseteq DOMAIN args)
          THEN Returned("GIMP filter error: KeyError", <<>>, {})
          ELSE IF ~Exists(found, args.input_file)
          THEN Returned("Error: Input file not found", <<>>, {})
          ELSE IF args.filter \notin {"blur", "sharpen", "motion-blur",
                                      "unsharp-mask"}
          THEN Returned("Unknown filter", <<>>, {})
          ELSE execute_gimp_script(args.input_file, args.output_file, found,
                                   "Successfully executed GIMP filter"))

\* gimp.py 482-551
gimp_text ==
    LET args == toolCall.args
        found == toolCall.found
    IN  AdapterCall("gimp_text",
          IF ~({"input_file", "output_file", "text"} \subseteq DOMAIN args)
          THEN Returned("GIMP text error: KeyError", <<>>, {})
          ELSE IF ~Exists(found, args.input_file)
          THEN Returned("Error: Input file not found", <<>>, {})
          ELSE execute_gimp_script(args.input_file, args.output_file, found,
                                   "Successfully executed GIMP text"))

\* gimp.py 613-729
gimp_composite ==
    LET args == toolCall.args
        found == toolCall.found
        result == run_gimp_batch(found)
    IN  AdapterCall("gimp_composite",
          IF ~({"base_image", "overlay_image", "output_file"}
                  \subseteq DOMAIN args)
          THEN Returned("GIMP composite error: KeyError", <<>>, {})
          ELSE IF ~Exists(found, args.base_image)
          THEN Returned("Error: Base image not found", <<>>, {})
          ELSE IF ~Exists(found, args.overlay_image)
          THEN Returned("Error: Overlay image not found", <<>>, {})
          ELSE IF ~result.success
          THEN Returned("GIMP composite failed: " \o result.error,
                        result.calls, {})
          ELSE IF ExistsAfter(found, args.output_file)
          THEN Returned("Successfully composited images", result.calls,
                        ProcessWrites(found, args.output_file))
          ELSE Returned("GIMP composite failed: Unknown error",
                        result.calls, {}))

\* potrace.py 115-316: lines 117-118 index args before the try statement;
\* 241-290 is the optional optimization of the traced file
trace_bitmap ==
    LET args == toolCall.args
        found == toolCall.found
        written == ProcessWrites(found, args.output_file)
        traced == <<"convert", "potrace">>
        optimized == <<"convert", "potrace", "inkscape">>
    IN  AdapterCall("trace_bitmap",
          IF ~({"input_file", "output_file"} \subseteq DOMAIN args)
          THEN Raised("KeyError", <<>>, {})
          ELSE IF LowerExt(args.output_file.ext) # ".svg"
          THEN Returned("Error: output_file must end with .svg extension",
                        <<>>, {})
          ELSE IF ~Exists(found, args.input_file)
          THEN Returned("Error: Input file not found", <<>>, {})
          ELSE IF "potrace" \notin found.installed
          THEN Returned("Potrace not found. Install it with", <<>>, {})
          ELSE IF "convert" \notin found.installed
          THEN Returned("ImageMagick not found. Install it with", <<>>, {})
          ELSE IF found.pre = "timeout"
          THEN Returned("Tracing timeout exceeded (60 seconds)",
                        <<"convert">>, {})
          ELSE IF returncode(found.pre) # 0
          THEN Returned("ImageMagick conversion failed.", <<"convert">>, {})
          ELSE IF found.proc = "timeout"
          THEN Returned("Tracing timeout exceeded (60 seconds)", traced, {})
          ELSE IF found.proc = "oserror"
          THEN Returned("Bitmap tracing error", traced, {})
          ELSE IF returncode(found.proc) # 0
          THEN Returned("Potrace tracing failed.", traced, {})
          ELSE IF ~ExistsAfter(found, args.output_file)
          THEN Returned("Potrace completed but output file was not created",
                        traced, {})
          ELSE IF ~ArgGet(args, "tight_bounds", TRUE)
          THEN Returned("Successfully traced bitmap to SVG", traced, written)
          ELSE IF "inkscape" \notin found.installed
          THEN Returned("Successfully traced bitmap to SVG (Inkscape not found, skipping viewBox optimization)",
                        traced, written)
          ELSE IF found.post = "timeout"
          THEN Returned("Tracing timeout exceeded (60 seconds)", optimized,
                        written)
          ELSE IF found.post = "exit0_written"
          THEN Returned("Successfully traced bitmap to SVG (viewBox optimized)",
                        optimized,
                        {Written(ProcessPath(args.output_file), "optimized")})
          ELSE Returned("Successfully traced bitmap to SVG (viewBox optimization failed, using original)",
                        optimized, written))

\* weasyprint.py 99-197: the import check of 101 comes before the try
\* statement; an exception of the library is one of write_pdf
html_to_pdf ==
    LET args == toolCall.args
        found == toolCall.found
    IN  AdapterCall("html_to_pdf",
          IF "weasyprint" \notin found.installed
          THEN Returned("WeasyPrint not installed. Install it with", <<>>, {})
          ELSE IF ~({"input_file", "output_file"} \subseteq DOMAIN args)
          THEN Returned("PDF conversion error: KeyError", <<>>, {})
          ELSE IF ~Exists(found, args.input_file)
          THEN Returned("Error: Input file not found", <<>>, {})
          ELSE IF "css_file" \in DOMAIN args /\ ~Exists(found, args.css_file)
          THEN Returned("Error: CSS file not found", <<>>, {})
          ELSE IF returncode(found.proc) # 0
          THEN Returned("PDF conversion error", <<"write_pdf">>, {})
          ELSE IF ExistsAfter(found, args.output_file)
          THEN Returned("Successfully converted HTML to PDF", <<"write_pdf">>,
                        ProcessWrites(found, args.output_file))
          ELSE Returned("PDF conversion failed: Output file not created",
                        <<"write_pdf">>, {}))

NextAdapters ==
    \/ export_svg
    \/ open_in_inkscape
    \/ query_svg
    \/ convert_svg
    \/ image_resize
    \/ image_convert
    \/ image_effects
    \/ image_composite
    \/ open_in_gimp
    \/ gimp_script
    \/ gimp_filter
    \/ gimp_text
    \/ gimp_composite
    \/ trace_bitmap
    \/ html_to_pdf

SpecAdapters == InitAdapters /\ [][NextAdapters]_vars


(***************************************************************************)
(* DesignSession used as a library: the class exists (DEFAULT_TOOLS is      *)
(* computed), the program may change its environment while it holds no      *)
(* connection, constructs a session with or without a tool list, reads the  *)
(* allowed_tools property and changes the list it got                       *)
(***************************************************************************)
InitLibrary ==
    /\ SessionInit
    /\ NoToolCall
    /\ modeBase = <<>>
    /\ modeInput = <<>>
    /\ modeResult = None
    /\ mainPc = "imported"
    /\ dotenv = NoEnviron
    /\ \E gflag \in {Unset, TrueStr}, gkey \in {Unset, Str1("k")},
          fflag \in {Unset, TrueStr} :
          environ = Environ(Unset, gflag, gkey, fflag, Str1("t"))
    /\ DEFAULT_TOOLS = DefaultTools(environ)
    /\ allowed_tools = <<>>
    /\ autonomy_mode = None
    /\ tools_arg = NoToolsArg
    /\ tools_view = NoToolsView
    /\ NoFrontEnd

\* agent.py 307-359: DesignSession(working_dir, allowed_tools)
Construct ==
    /\ mainPc = "imported"
    /\ mainPc' = "session"
    /\ \E arg \in {NoToolsArg, ToolsArg(TRUE, <<>>),
                    ToolsArg(TRUE, <<Builtin("Read")>>),
                    ToolsArg(TRUE, <<Builtin("Read"),
                                     Mcp("inkscape", "query_svg")>>)} :
          /\ tools_arg' = arg
          /\ allowed_tools' = AllowedToolsOrDefault(arg, DEFAULT_TOOLS)
    /\ autonomy_mode' = get_default_autonomy_mode(environ)
    /\ lastOp' = Op("DesignSession", autonomy_mode', 0)
    /\ UNCHANGED <<sessVars, sdkVars, gen, turnVars, countVars, modeVars,
                   environ, dotenv, DEFAULT_TOOLS, tools_view, toolVars, cliVars>>

\* agent.py 381-384: session.allowed_tools
ReadAllowedTools ==
    /\ mainPc = "session"
    /\ ~tools_view.read
    /\ tools_view' = AllowedToolsProperty(allowed_tools)
    /\ lastOp' = Op("allowed_tools", None, 0)
    /\ UNCHANGED <<sessVars, sdkVars, gen, turnVars, countVars, modeVars,
                   environ, dotenv, mainPc, DEFAULT_TOOLS, allowed_tools,
                   autonomy_mode, tools_arg, toolVars, cliVars>>

\* The caller appends to the list the property gave it; the session's list
\* follows only if the two are one object
MutateView ==
    /\ tools_view.read
    /\ Len(tools_view.list) <= Len(allowed_tools)
    /\ tools_view' = [tools_view EXCEPT !.list = Append(@, Builtin("Task"))]
    /\ allowed_tools' = IF tools_view.aliased THEN tools_view'.list
                        ELSE allowed_tools
    /\ lastOp' = Op("append", None, 0)
    /\ UNCHANGED <<sessVars, sdkVars, gen, turnVars, countVars, modeVars,
                   environ, dotenv, mainPc, DEFAULT_TOOLS, autonomy_mode,
                   tools_arg, toolVars, cliVars>>

\* The program sets or unsets the variables config.py 114-139 read, while
\* the session holds no connection
SetEnviron ==
    /\ ~is_connected
    /\ \E gflag \in {Unset, TrueStr}, gkey \in {Unset, Str1("k")},
          fflag \in {Unset, TrueStr} :
          /\ environ' = Environ(Unset, gflag, gkey, fflag, Str1("t"))
          /\ environ' # environ
    /\ lastOp' = Op("environ", None, 0)
    /\ UNCHANGED <<sessVars, sdkVars, gen, turnVars, countVars, modeVars,
                   dotenv, mainPc, DEFAULT_TOOLS, allowed_tools,
                   autonomy_mode, tools_arg, tools_view, toolVars, cliVars>>

NextLibrary ==
    \/ Construct
    \/ ReadAllowedTools
    \/ MutateView
    \/ SetEnviron
    \/ Connect
    \/ Disconnect

SpecLibrary == InitLibrary /\ [][NextLibrary]_vars

(***************************************************************************)
(* run_cli  main.py 195-398: the read-eval loop of the front end.  Each     *)
(* await of the loop is a step of its own, so that the states between a     *)
(* disconnect, the creation of the next session and its connect are states  *)
(* of the model.  The session run_cli holds in its local session is the     *)
(* last one it created.                                                     *)
(***************************************************************************)
MaxSessions == 3
MaxEvents == 3

\* DesignSession(working_dir=..., autonomy_mode=mode)  agent.py 339-359, as
\* far as run_cli looks at it
DesignSession(mode) == [autonomy_mode |-> mode, is_connected |-> FALSE]

\* The local session of run_cli
session == sessions[Len(sessions)]

\* agent.py 406-533 on a session that is not connected: _is_connected is
\* set after client.connect() returned
SessionConnect(s, ok) ==
    IF s.is_connected THEN s ELSE [s EXCEPT !.is_connected = ok]

\* agent.py 542-545: client.disconnect() is awaited if the session is
\* connected, and _is_connected is cleared after it returned
SessionDisconnect(s, ok) ==
    IF s.is_connected /\ ok THEN [s EXCEPT !.is_connected = FALSE] ELSE s

\* utils/progress.py 51-56 and 58-71: start() and stop() of a Spinner
SpinnerStart(alive, s) == alive \cup {s}
SpinnerStop(alive, s) == alive \ {s}

\* main.py 325: spinner = Spinner("Thinking...")
ThinkingSpinner == Spinner("Thinking...", 0)

\* The words after /mode: spellings of the three modes and a word that is
\* none
ModeArgs ==
    {<<"a", "p", "p", "r", "o", "v", "a", "l">>, <<"a", "u", "t", "o">>,
     <<"f", "u", "l", "l", "-", "a", "u", "t", "o">>, <<"f", "a", "s", "t">>}

\* main.py 206-221: the mode of the environment, the first session
InitCli ==
    /\ SessionInit
    /\ environ = NoEnviron
    /\ dotenv = NoEnviron
    /\ mainPc = "session"
    /\ DEFAULT_TOOLS = DefaultTools(NoEnviron)
    /\ allowed_tools = DefaultTools(NoEnviron)
    /\ autonomy_mode = get_default_autonomy_mode(NoEnviron)
    /\ tools_arg = NoToolsArg
    /\ tools_view = NoToolsView
    /\ NoToolCall
    /\ modeBase = <<>>
    /\ modeInput = <<>>
    /\ modeResult = None
    /\ cliPc = "connect"
    /\ \E mode \in {"APPROVAL", "AUTO", "FULL_AUTO"} :
          /\ cliMode = mode
          /\ sessions = <<DesignSession(mode)>>
    /\ animating = {}
    /\ tool_spinner = NoSpinner
    /\ response_started = FALSE
    /\ rendered = 0
    /\ finalDisconnect = "none"
    /\ cliOp = Op("DesignSession", "created", 0)

\* What run_cli leaves alone
CliFrame == UNCHANGED <<sessVars, sdkVars, gen, turnVars, countVars, lastOp,
                        modeVars, cfgVars, toolVars>>

\* main.py 223-231: the first connect inside the outer try; an exception or
\* an interrupt leaves through the finally clause
FirstConnect ==
    /\ cliPc = "connect"
    /\ \E ok \in BOOLEAN :
          /\ sessions' = [sessions EXCEPT
                            ![Len(sessions)] = SessionConnect(@, ok)]
          /\ cliPc' = IF ok THEN "prompt" ELSE "finally"
          /\ cliOp' = Op("connect", IF ok THEN "ok" ELSE "raised", 1)
    \* with Spinner("Connecting to Claude..."): started and stopped
    /\ animating' = SpinnerStop(SpinnerStart(animating,
                                             Spinner("Connecting", 0)),
                                Spinner("Connecting", 0))
    /\ UNCHANGED <<cliMode, tool_spinner, response_started, rendered,
                   finalDisconnect>>
    /\ CliFrame

\* main.py 253-255 and 384-386: /quit, /exit, /q, or the end of the input
Quit ==
    /\ cliPc = "prompt"
    /\ cliPc' = "finally"
    /\ \E how \in {"quit", "EOFError"} : cliOp' = Op("quit", how, 0)
    /\ UNCHANGED <<cliMode, sessions, animating, tool_spinner,
                   response_started, rendered, finalDisconnect>>
    /\ CliFrame

\* main.py 244-245, 257-263, 266-269, 310-321: empty input, /help, /status,
\* /mode without a word, /clear, an unknown command
InfoCommand ==
    /\ cliPc = "prompt"
    /\ \E command \in {"", "/help", "/status", "/mode", "/clear", "/x"} :
          cliOp' = Op("command", command, 0)
    /\ UNCHANGED <<cliPc, cliMode, sessions, animating, tool_spinner,
                   response_started, rendered, finalDisconnect>>
    /\ CliFrame

\* main.py 270-295: /mode with a word, up to the await of disconnect()
ModeCommand ==
    /\ cliPc = "prompt"
    /\ Len(sessions) < MaxSessions
    /\ \E word \in ModeArgs :
         LET new_mode == from_string(word)
         IN  IF new_mode = "ValueError" THEN
                 /\ cliOp' = Op("/mode", "ValueError", 0)
                 /\ UNCHANGED <<cliPc, cliMode>>
             ELSE IF new_mode # cliMode THEN
                 /\ cliMode' = new_mode
                 /\ cliPc' = "disconnect"
                 /\ cliOp' = Op("/mode", new_mode, 0)
             ELSE
                 /\ cliOp' = Op("/mode", "already", 0)
                 /\ UNCHANGED <<cliPc, cliMode>>
    /\ UNCHANGED <<sessions, animating, tool_spinner, response_started,
                   rendered, finalDisconnect>>
    /\ CliFrame

\* main.py 297-299: /new, up to the await of disconnect()
NewCommand ==
    /\ cliPc = "prompt"
    /\ Len(sessions) < MaxSessions
    /\ cliPc' = "disconnect"
    /\ cliOp' = Op("/new", "", 0)
    /\ UNCHANGED <<cliMode, sessions, animating, tool_spinner,
                   response_started, rendered, finalDisconnect>>
    /\ CliFrame

\* Variant: the handler goes on after a disconnect that raised
PcAfterDisconnectErrorGoesOn == "create"

\* main.py 388-392: the exception of disconnect() is caught by the handler
\* of the loop body, which continues with the next prompt
PcAfterDisconnectError == "prompt"

\* main.py 280 and 300: await session.disconnect()
SwitchDisconnect ==
    /\ cliPc = "disconnect"
    /\ \E ok \in BOOLEAN :
          /\ ~session.is_connected => ok
          /\ sessions' = [sessions EXCEPT
                            ![Len(sessions)] = SessionDisconnect(@, ok)]
          /\ cliPc' = IF ok THEN "create" ELSE PcAfterDisconnectError
          /\ cliOp' = Op("disconnect",
                         IF ~ok THEN "raised"
                         ELSE IF session.is_connected THEN "ok" ELSE "noop",
                         IF session.is_connected THEN 1 ELSE 0)
    /\ UNCHANGED <<cliMode, animating, tool_spinner, response_started,
                   rendered, finalDisconnect>>
    /\ CliFrame

\* main.py 281-284 and 301-303: session = DesignSession(...)
SwitchCreate ==
    /\ cliPc = "create"
    /\ sessions' = Append(sessions, DesignSession(cliMode))
    /\ cliPc' = "switch_connect"
    /\ cliOp' = Op("DesignSession", "created", 0)
    /\ UNCHANGED <<cliMode, animating, tool_spinner, response_started,
                   rendered, finalDisconnect>>
    /\ CliFrame

\* main.py 285-286 and 304-305: with Spinner(...): await session.connect();
\* an exception is caught by the handler of the loop body
SwitchConnect ==
    /\ cliPc = "switch_connect"
    /\ \E ok \in BOOLEAN :
          /\ sessions' = [sessions EXCEPT
                            ![Len(sessions)] = SessionConnect(@, ok)]
          /\ cliOp' = Op("connect", IF ok THEN "ok" ELSE "raised", 1)
    /\ cliPc' = "prompt"
    /\ animating' = SpinnerStop(SpinnerStart(animating,
                                             Spinner("Starting", 0)),
                                Spinner("Starting", 0))
    /\ UNCHANGED <<cliMode, tool_spinner, response_started, rendered,
                   finalDisconnect>>
    /\ CliFrame

\* main.py 323-332: a prompt for the agent; the first spinner is started
SendPrompt ==
    /\ cliPc = "prompt"
    /\ cliPc' = "render"
    /\ animating' = SpinnerStart(animating, ThinkingSpinner)
    /\ response_started' = FALSE
    /\ tool_spinner' = NoSpinner
    /\ rendered' = 0
    /\ cliOp' = Op("send", "generator", 0)
    /\ UNCHANGED <<cliMode, sessions, finalDisconnect>>
    /\ CliFrame

\* main.py 333-357: a text event
RenderText ==
    /\ cliPc = "render"
    /\ session.is_connected
    /\ rendered < MaxEvents
    /\ LET first == IF ~response_started
                    THEN SpinnerStop(animating, ThinkingSpinner)
                    ELSE animating
       IN  animating' = IF tool_spinner # NoSpinner
                        THEN SpinnerStop(first, tool_spinner) ELSE first
    /\ response_started' = TRUE
    /\ tool_spinner' = NoSpinner
    /\ rendered' = rendered + 1
    /\ cliOp' = Op("event", "text", 0)
    /\ UNCHANGED <<cliPc, cliMode, sessions, finalDisconnect>>
    /\ CliFrame

\* main.py 359-367: a tool_use event
RenderToolUse ==
    /\ cliPc = "render"
    /\ session.is_connected
    /\ rendered < MaxEvents
    /\ tool_spinner' = Spinner("Working", rendered + 1)
    /\ animating' =
          SpinnerStart(IF tool_spinner # NoSpinner
                       THEN SpinnerStop(animating, tool_spinner)
                       ELSE animating,
                       tool_spinner')
    /\ rendered' = rendered + 1
    /\ cliOp' = Op("event", "tool_use", 0)
    /\ UNCHANGED <<cliPc, cliMode, sessions, response_started,
                   finalDisconnect>>
    /\ CliFrame

\* main.py 372-376: the finally clause of the rendering
StopSpinners(alive, tool) ==
    IF tool # NoSpinner
    THEN SpinnerStop(SpinnerStop(alive, ThinkingSpinner), tool)
    ELSE SpinnerStop(alive, ThinkingSpinner)

\* main.py 369-378: the iteration ends
RenderEnd ==
    /\ cliPc = "render"
    /\ session.is_connected
    /\ animating' = StopSpinners(IF ~response_started
                                 THEN SpinnerStop(animating, ThinkingSpinner)
                                 ELSE animating, tool_spinner)
    /\ cliPc' = "prompt"
    /\ cliOp' = Op("event", "end", 0)
    /\ UNCHANGED <<cliMode, sessions, tool_spinner, response_started,
                   rendered, finalDisconnect>>
    /\ CliFrame

\* main.py 372-392: send() raises (RuntimeError of a session that is not
\* connected, an error of the SDK) or the user interrupts; the finally
\* clause runs and a handler of the loop body continues the loop
RenderRaise ==
    /\ cliPc = "render"
    /\ animating' = StopSpinners(animating, tool_spinner)
    /\ cliPc' = "prompt"
    /\ \E how \in {"Exception", "KeyboardInterrupt"} :
          cliOp' = Op("event", how, 0)
    /\ UNCHANGED <<cliMode, sessions, tool_spinner, response_started,
                   rendered, finalDisconnect>>
    /\ CliFrame

\* Variant: the finally clause does not disconnect
FinallyDisconnectsNever(connected) == FALSE

\* main.py 396: if session.is_connected
FinallyDisconnects(connected) == connected

\* main.py 394-398: the finally clause of run_cli
Finally ==
    /\ cliPc = "finally"
    /\ cliPc' = "returned"
    /\ IF FinallyDisconnects(session.is_connected) THEN
           \E ok \in BOOLEAN :
              /\ sessions' = [sessions EXCEPT
                                ![Len(sessions)] = SessionDisconnect(@, ok)]
              /\ finalDisconnect' = IF ok THEN "ok" ELSE "raised"
              /\ cliOp' = Op("disconnect", finalDisconnect', 1)
       ELSE
           /\ finalDisconnect' = "skipped"
           /\ cliOp' = Op("disconnect", "skipped", 0)
           /\ UNCHANGED sessions
    /\ UNCHANGED <<cliMode, animating, tool_spinner, response_started,
                   rendered>>
    /\ CliFrame

NextCli ==
    \/ FirstConnect
    \/ Quit
    \/ InfoCommand
    \/ ModeCommand
    \/ NewCommand
    \/ SwitchDisconnect
    \/ SwitchCreate
    \/ SwitchConnect
    \/ SendPrompt
    \/ RenderText
    \/ RenderToolUse
    \/ RenderEnd
    \/ RenderRaise
    \/ Finally

SpecCli == InitCli /\ [][NextCli]_vars


Next ==
    \/ Connect
    \/ Disconnect
    \/ SendCall
    \/ NextStart
    \/ NextResume
    \/ Abandon
    \/ RecvAssistant
    \/ RecvUser
    \/ RecvError
    \/ RecvEnd
    \/ VisitBlock

Spec == Init /\ [][Next]_vars


(***************************************************************************)
(* Properties                                                               *)
(***************************************************************************)

\* The events the docstring of send() (agent.py 608-612) promises for a list
\* of blocks: one per text block and one per tool-use block, in order
ExpectedEvents(bs) ==
    LET shown == SelectSeq(bs, LAMBDA b : b.kind \in {"text", "tool_use"})
    IN [i \in 1..Len(shown) |->
          IF shown[i].kind = "text" THEN <<"text", shown[i].text>>
          ELSE <<"tool_use", shown[i].name>>]

\* The blocks of the turn that send() has visited so far
Visited == SubSeq(emitted, 1, Len(emitted) - Len(gen.blocks))

\* C1: the first __anext__ of send() on a session that is not connected
\* raises the "not connected" RuntimeError, passes no prompt to the client,
\* leaves message_count alone and delivers no event, whatever the prompt.
C1_SendNotConnectedRaises ==
    [][(gen.state = "created" /\ ~is_connected /\ lastOp'.op = "next")
         => /\ gen'.state = "raised"
            /\ gen'.error = "RuntimeError"
            /\ events' = <<>>
            /\ lastOp'.calls = 0
            /\ message_count' = message_count]_vars

\* C1 witness: send raised on a session that was connected and disconnected
C1_Witness ==
    /\ gen.state = "raised"
    /\ gen.error = "RuntimeError"
    /\ client # NoClient
    /\ lastOp.op = "next"
    /\ lastConnect = "ok"

\* C2: when every send() call made so far was consumed to end-of-turn,
\* message_count equals the number of send() calls.
C2_MessageCountIsSends ==
    (gen.state \in {"none", "done"} /\ sendsCompleted = sendCalls)
        => message_count = sendCalls

\* C2 witness: two completed sends, the latest with two events
C2_Witness ==
    /\ gen.state = "done"
    /\ sendsCompleted = sendCalls
    /\ sendCalls >= 2
    /\ Len(events) >= 2

\* C3: connect() on a connected session changes neither the flag, the
\* counter, the client, nor the number of clients and connections made.
C3_ConnectIdempotent ==
    [][(is_connected /\ lastOp'.op = "connect")
         => /\ lastOp'.result = "already"
            /\ lastOp'.calls = 0
            /\ is_connected'
            /\ UNCHANGED <<message_count, client, clientsCreated,
                           openConns, outputDirEnv>>]_vars

\* C3 witness: connect() returned early on a connected session
C3_Witness ==
    /\ lastOp = Op("connect", "already", 0)
    /\ is_connected
    /\ clientsCreated = 1

\* C4: disconnect() on a session that is not connected calls nothing and
\* leaves is_connected false; on a connected session it calls the client's
\* disconnect once and leaves is_connected false.
C4_DisconnectReleasesOnce ==
    [][(lastOp'.op = "disconnect")
         => /\ ~is_connected'
            /\ lastOp'.calls = IF is_connected THEN 1 ELSE 0
            /\ is_connected => client \notin openConns']_vars

\* C5: a connect() whose client.connect() fails made one attempt and leaves
\* is_connected false; the first __anext__ of a send() that follows it
\* raises the "not connected" RuntimeError.
C5_ConnectFailure ==
    [][/\ (lastOp'.op = "connect" /\ lastOp'.result = "ConnectionError")
            => (lastOp'.calls = 1 /\ ~is_connected')
       /\ (lastConnect = "ConnectionError" /\ gen.state = "created"
           /\ lastOp'.op = "next")
            => (gen'.state = "raised" /\ gen'.error = "RuntimeError")]_vars

\* C5 witness: send raised after a failed connect
C5_Witness ==
    /\ lastConnect = "ConnectionError"
    /\ lastOp = Op("next", "RuntimeError", 0)
    /\ clientsCreated = 1

\* C6: a send() consumed to end-of-turn has delivered one ("tool_result", "")
\* event for every tool result of the turn.
C6_ToolResultEvents ==
    gen.state = "done"
        => Len(SelectSeq(events, LAMBDA e : e[1] = "tool_result")) = toolResults

\* C7: files are auto-opened only in the step that ends the turn, after
\* every event of the turn was delivered; no event is delivered after it,
\* and a generator that raised or was closed opened nothing.
C7_AutoOpenAfterStream ==
    [][/\ (autoOpened' # autoOpened /\ autoOpened' # <<>>)
            => /\ gen'.state = "done"
               /\ endOfTurn'
               /\ events' = events
               /\ events = ExpectedEvents(emitted)
       /\ (launched' # launched /\ launched' # <<>>)
            => (gen'.state = "done" /\ endOfTurn')
       /\ (events' # events /\ events' # <<>>)
            => (autoOpened' = <<>> /\ launched' = <<>>)
       /\ (gen'.state \in {"raised", "closed", "running", "suspended"})
            => (autoOpened' = <<>> /\ launched' = <<>>)]_vars

\* C7 witness: a turn with events ended and started an application
C7_Witness ==
    /\ gen.state = "done"
    /\ launched # <<>>
    /\ events # <<>>

WriteEditPaths(bs, wd) ==
    {AbsPath(wd, bs[j].input.file_path) :
        j \in {k \in 1..Len(bs) : bs[k].name \in {Builtin("Write"), Builtin("Edit")}}}

MayTrack(b, wd) ==
    IF b.name \in {Builtin("Write"), Builtin("Edit")}
    THEN {AbsPath(wd, b.input.file_path)}
    ELSE IF b.name = Mcp("gemini", "gemini_generate_image")
    THEN {AbsPath(wd, b.input.output_file)}
    ELSE IF /\ Len(b.name) = 3
            /\ b.name[1] = "mcp"
            /\ b.name[2] \in {"inkscape", "imagemagick", "gimp"}
    THEN {AbsPath(wd, b.input.output_file), AbsPath(wd, b.input.output_path),
          AbsPath(wd, b.input.file_path)}
    ELSE IF b.name = Mcp("grok", "generate_image")
    THEN {AbsPath(wd, GrokImage1)}
    ELSE {}

TrackablePaths(bs, wd) ==
    UNION {MayTrack(bs[j], wd) : j \in 1..Len(bs)} \ {AbsPath(wd, NoPath)}

SpellingMode(word) ==
    CASE word \in {<<"a", "p", "p", "r", "o", "v", "a", "l">>, <<"d", "e", "f", "a", "u", "l", "t">>} -> "APPROVAL"
      [] word \in {<<"a", "u", "t", "o">>, <<"a", "c", "c", "e", "p", "t", "E", "d", "i", "t", "s">>} -> "AUTO"
      [] word \in {<<"f", "u", "l", "l", "_", "a", "u", "t", "o">>, <<"f", "u", "l", "l", "-", "a", "u", "t", "o">>, <<"f", "u", "l", "l", " ", "a", "u", "t", "o">>,
                   <<"f", "u", "l", "l", "a", "u", "t", "o">>, <<"b", "y", "p", "a", "s", "s">>,
                   <<"b", "y", "p", "a", "s", "s", "P", "e", "r", "m", "i", "s", "s", "i", "o", "n", "s">>} -> "FULL_AUTO"
      [] OTHER -> "ValueError"

\* C10: every case variant of a spelling resolves to the mode of the
\* spelling, and every case variant of a string that is no spelling raises
\* ValueError.
C10_FromStringCaseInsensitive ==
    modeResult # None => modeResult = SpellingMode(modeBase)

\* C10 witness: the upper-case input "AUTO" resolved to AUTO
C10_Witness ==
    /\ modeResult = "AUTO"
    /\ modeInput = <<"A", "U", "T", "O">>

\* The elements of a list
Range(seq) == {seq[i] : i \in 1..Len(seq)}

\* C11 as stated: get_default_autonomy_mode returns the mode from_string
\* gives for the value of PYGMALION_AUTONOMY_MODE when from_string accepts
\* that value, and APPROVAL for every other value and when it is unset
C11_EnvSpellingOrApproval ==
    mainPc = "session" =>
        autonomy_mode =
            IF from_string(EnvGet(environ.PYGMALION_AUTONOMY_MODE)) # "ValueError"
            THEN from_string(EnvGet(environ.PYGMALION_AUTONOMY_MODE))
            ELSE "APPROVAL"

\* C11 amended: get_default_autonomy_mode never raises; it returns the mode
\* of the spelling that remains when the whitespace around the value is
\* removed, and APPROVAL when what remains is empty or no spelling, or when
\* the variable is unset
C11_StrippedSpellingOrApproval ==
    mainPc = "session" =>
        /\ autonomy_mode \in {"APPROVAL", "AUTO", "FULL_AUTO"}
        /\ autonomy_mode =
              IF environ.PYGMALION_AUTONOMY_MODE # Unset
                 /\ modeBase \in RecognisedWords
              THEN SpellingMode(modeBase) ELSE "APPROVAL"

C11_Witness ==
    /\ mainPc = "session"
    /\ environ.PYGMALION_AUTONOMY_MODE = <<" ", "A", "U", "T", "O", "\n">>
    /\ autonomy_mode = "AUTO"

C11_WitnessFallback ==
    /\ mainPc = "session"
    /\ environ.PYGMALION_AUTONOMY_MODE = <<"m", "a", "n", "u", "a", "l">>
    /\ autonomy_mode = "APPROVAL"

\* The flag is one of the truthy inputs and the credential one of the
\* non-blank inputs
GeminiConfigured ==
    /\ environ.PYGMALION_GEMINI_ENABLED \in TruthyFlagInputs
    /\ environ.GEMINI_API_KEY \in PresentCredentials
FigmaConfigured ==
    /\ environ.PYGMALION_FIGMA_ENABLED \in TruthyFlagInputs
    /\ environ.FIGMA_ACCESS_TOKEN \in PresentCredentials

\* C12: the tool names of Gemini and of Figma are in the default allow-list
\* of the session, and their servers are registered by connect(), exactly
\* when the enable flag is truthy and the credential is present and not
\* blank; when either is missing no tool name is listed and no server is
\* registered
C12_IntegrationGating ==
    /\ mainPc = "session" =>
          /\ \A n \in Range(GEMINI_TOOL_NAMES) :
                n \in Range(allowed_tools) <=> GeminiConfigured
          /\ \A n \in Range(FigmaToolNames) :
                n \in Range(allowed_tools) <=> FigmaConfigured
    /\ lastConnect \in {"ok", "ConnectionError"} =>
          /\ "gemini" \in mcp_servers <=> GeminiConfigured
          /\ "figma" \in mcp_servers <=> FigmaConfigured

C12_Witness ==
    /\ lastConnect = "ok"
    /\ environ.PYGMALION_GEMINI_ENABLED = TrueStr
    /\ environ.GEMINI_API_KEY = <<" ", " ">>
    /\ "gemini" \notin mcp_servers
    /\ Mcp("gemini", "gemini_generate_image") \notin Range(allowed_tools)
    /\ "figma" \in mcp_servers

\* The call reached the body of the tool with a usable prompt: the SDK is
\* installed, an API key is set and the required arguments are given
WellFormedGeminiCall ==
    /\ toolResult.state # "pending"
    /\ toolCall.env.GEMINI_AVAILABLE
    /\ ApiKey(toolCall.env) # <<>>
    /\ {"prompt", "output_file"} \subseteq DOMAIN toolCall.args
    /\ Len(Strip(toolCall.args.prompt)) >= 3

\* C13: a gemini_generate_image request for image_size 4K with num_images
\* above 1 is rejected with the text about the single-image limit, calls no
\* model and writes no file, whatever PYGMALION_GEMINI_IMAGE_SIZE holds
C13_Reject4KBatch ==
    ( /\ toolCall.tool = "gemini_generate_image"
      /\ WellFormedGeminiCall
      /\ ArgGet(toolCall.args, "image_size", <<>>) = Size4K
      /\ ArgGet(toolCall.args, "num_images", 1) > 1 )
    => /\ toolResult.state = "returned"
       /\ toolResult.text = "4K resolution only supports generating 1 image at a time."
       /\ toolResult.calls = <<>>
       /\ toolResult.written = {}

\* The SVG tool got a text from the model and could write its file
SvgTextReceived ==
    /\ toolCall.tool = "gemini_generate_svg"
    /\ WellFormedGeminiCall
    /\ LowerExt(toolCall.args.output_file.ext) = ".svg"
    /\ toolCall.found.outcome = "text"
    /\ toolCall.found.writeOk

\* C14: when the response is one <svg>...</svg> span, bare or between lines
\* of code fences, with or without text before and after it, the content
\* gemini_generate_svg writes is that span
C14_ExtractionReturnsSpan ==
    ( /\ SvgTextReceived
      /\ toolCall.found.shape.span # <<>>
      /\ toolCall.found.shape.fence # "inline" )
    => \E w \in toolResult.written :
          /\ toolResult.written = {w}
          /\ w.content = toolCall.found.shape.span

\* The text holds no "<svg", no "</svg>", or its last "</svg>" lies before
\* its first "<svg"
NoValidSpan(text) ==
    \/ \A i \in 1..Len(text) : text[i] # SvgOpen
    \/ \A i \in 1..Len(text) : text[i] # SvgClose
    \/ \A i, j \in 1..Len(text) :
          text[i] = SvgOpen /\ text[j] = SvgClose => j < i

\* C15: a response without a valid span gets the "invalid output" text and
\* no file; whatever is written starts with "<svg" and ends with "</svg>"
C15_InvalidOutputNoFile ==
    SvgTextReceived =>
       /\ NoValidSpan(toolCall.found.response) =>
             /\ toolResult.text = "SVG generation produced invalid output."
             /\ toolResult.written = {}
       /\ \A w \in toolResult.written :
             /\ w.content # <<>>
             /\ Head(w.content) = SvgOpen
             /\ w.content[Len(w.content)] = SvgClose

\* The required keys of an adapter and those of them that name input files
RequiredKeys(tool) ==
    IF tool \in {"open_in_inkscape", "query_svg", "open_in_gimp"}
    THEN {"file_path"}
    ELSE IF tool \in {"image_composite", "gimp_composite"}
    THEN {"base_image", "overlay_image", "output_file"}
    ELSE IF tool = "gimp_script" THEN {"input_file", "output_file", "script"}
    ELSE IF tool = "gimp_filter" THEN {"input_file", "output_file", "filter"}
    ELSE IF tool = "gimp_text" THEN {"input_file", "output_file", "text"}
    ELSE {"input_file", "output_file"}
InputKeys(tool) == RequiredKeys(tool) \ {"output_file", "script", "filter", "text"}

\* The response texts of the adapters in which "not found" occurs
NotFoundTexts ==
    {"Error: Input file not found", "Error: File not found", "Error: Base image not found", "Error: Overlay image not found",
     "Error: CSS file not found", "Inkscape not found. Please install Inkscape", "ImageMagick not found. Please install ImageMagick",
     "GIMP not found. Please install GIMP", "GIMP script failed: " \o "GIMP not found. Please install GIMP",
     "GIMP composite failed: " \o "GIMP not found. Please install GIMP",
     "Potrace not found. Install it with",
     "ImageMagick not found. Install it with", "Successfully traced bitmap to SVG (Inkscape not found, skipping viewBox optimization)"}

AdapterCalled ==
    /\ toolCall.tool \in AdapterTools
    /\ toolResult.state # "pending"

\* The call names, under every required key, a path, and one of its input
\* files does not exist
MissingInputCall ==
    /\ AdapterCalled
    /\ RequiredKeys(toolCall.tool) \subseteq DOMAIN toolCall.args
    /\ \E k \in InputKeys(toolCall.tool) :
          ~Exists(toolCall.found, toolCall.args[k])

\* C16: an adapter whose input file does not exist returns a text that
\* contains "not found" and raises nothing, whatever its other arguments
\* and whatever programs and libraries are installed
C16_MissingInputNotFound ==
    MissingInputCall =>
        /\ toolResult.state = "returned"
        /\ toolResult.text \in NotFoundTexts

\* C17: every adapter call ends by returning the response envelope; no
\* exception leaves the adapter, also when a required field is missing
C17_AlwaysEnvelope ==
    AdapterCalled => toolResult.state = "returned"

\* The response texts that report success
SuccessTexts ==
    {"Successfully exported", "Successfully converted SVG",
     "Successfully resized image", "Successfully converted image",
     "Successfully applied effects", "Successfully composited images",
     "Successfully executed GIMP script", "Successfully executed GIMP filter",
     "Successfully executed GIMP text", "Successfully traced bitmap to SVG",
     "Successfully traced bitmap to SVG (Inkscape not found, skipping viewBox optimization)",
     "Successfully traced bitmap to SVG (viewBox optimized)",
     "Successfully traced bitmap to SVG (viewBox optimization failed, using original)",
     "Successfully converted HTML to PDF"}

\* The adapters that start a program which is to write output_file
WritingTools ==
    AdapterTools \ {"open_in_inkscape", "query_svg", "open_in_gimp"}

\* The program of this call was started
ProgramRan ==
    /\ AdapterCalled
    /\ toolCall.tool \in WritingTools
    /\ AdapterProgram(toolCall.tool) \in Range(toolResult.calls)
           \cup (IF toolCall.tool = "html_to_pdf"
                 THEN Range(toolResult.calls) ELSE {})

\* C18: an adapter reports success only when the program of this call ended
\* with exit status zero and the output file exists after the call; when
\* the exit status is not zero the text reports a failure, also when a file
\* was at the output path before the call
C18_SuccessNeedsZeroExit ==
    ProgramRan =>
        /\ toolResult.text \in SuccessTexts =>
              /\ returncode(toolCall.found.proc) = 0
              /\ ExistsAfter(toolCall.found, toolCall.args.output_file)
        /\ toolCall.found.proc = "exit1" => toolResult.text \notin SuccessTexts

\* C19: an adapter resolves a relative output path against the working
\* directory of the session, so that the file it writes is the file the
\* session tracks
C19_OutputUnderWorkingDir ==
    /\ AdapterCalled
    /\ toolCall.tool \in WritingTools
    /\ toolResult.text \in SuccessTexts
    => \A w \in toolResult.written :
          /\ w.path = ResolveOutput(toolCall.args.output_file,
                                    toolCall.env.PYGMALION_OUTPUT_DIR)
          /\ toolCall.tool \notin {"trace_bitmap", "html_to_pdf"} =>
                <<w.path>> = TrackedFiles(
                    ToolUseBlock(Mcp(AdapterServer(toolCall.tool), toolCall.tool),
                                 Input(NoPath, toolCall.args.output_file, NoPath)),
                    toolCall.env.PYGMALION_OUTPUT_DIR, {})

\* C20: a session constructed without a working directory can connect:
\* connect() does not fail because of the missing directory, it ends as the
\* connection of the underlying client ends
C20_ConnectWithoutWorkingDir ==
    working_dir = None /\ lastOp.op = "connect" =>
        lastOp.result \in {"ok", "already", "ConnectionError"}

\* C21: a session constructed with an explicit list of tools has exactly
\* that list as its allow-list, the empty list included; DEFAULT_TOOLS is
\* used only when no list is given; changing the list the allowed_tools
\* property returned does not change the allow-list
C21_ExplicitToolsUsed ==
    mainPc = "session" =>
        allowed_tools = IF tools_arg.given THEN tools_arg.list
                        ELSE DEFAULT_TOOLS

\* The names in the allow-list and the registered servers agree
ServersMatchTools ==
    /\ \A i \in 1..Len(allowed_tools) :
          allowed_tools[i][1] = "mcp" => allowed_tools[i][2] \in mcp_servers
    /\ \A server \in mcp_servers :
          \E i \in 1..Len(allowed_tools) :
             StartsWithMcp(allowed_tools[i], server)

\* The session is connected and its allow-list is the default one
ConnectedWithDefaults ==
    /\ is_connected
    /\ mainPc = "session"
    /\ ~tools_arg.given

C22_RequestSizeWins ==
    ( /\ toolCall.tool = "gemini_generate_image"
      /\ WellFormedGeminiCall
      /\ toolResult.calls # <<>> )
    => LET requested == ArgGet(toolCall.args, "image_size", <<>>)
           preferred ==
               StrUpper(EnvGet(toolCall.env.PYGMALION_GEMINI_IMAGE_SIZE))
           used == toolResult.calls[1].size
       IN  /\ requested \in VALID_IMAGE_SIZES => used = requested
           /\ "image_size" \notin DOMAIN toolCall.args =>
                 used = IF preferred \in VALID_IMAGE_SIZES THEN preferred
                        ELSE Size1K

\* C23: message_count never decreases, whatever connect, disconnect, send
\* (successful, failing or abandoned) and property reads are made; a
\* disconnect followed by a connect does not set it back
C23_CountNeverDecreases == [][message_count' >= message_count]_vars

\* A second client connected by a session that has counted a message
C23_Witness ==
    /\ message_count >= 1
    /\ clientsCreated >= 2
    /\ lastOp = Op("connect", "ok", 1)
    /\ is_connected

\* C30: a send that fails before the prompt is accepted (the session is not
\* connected, or query() raises) leaves message_count, is_connected and the
\* client as they were and opens no file; message_count grows by exactly one
\* per send, in the step in which query() returned, and in no other step
FailedBeforeAccepted ==
    gen.state = "raised" /\ gen.error \in {"RuntimeError", "QueryError"}

C30_FailedSendLeavesSession ==
    /\ [](/\ FailedBeforeAccepted => autoOpened = <<>> /\ launched = <<>>
          /\ message_count <= sendCalls)
    /\ [][/\ (gen.state = "created" /\ FailedBeforeAccepted')
             => /\ UNCHANGED <<message_count, is_connected, client>>
                /\ UNCHANGED <<autoOpened, launched>>
          /\ (gen.state = "created" /\ gen'.state = "running")
             => message_count' = message_count + 1
          /\ message_count' # message_count
             => gen.state = "created" /\ gen'.state = "running"]_vars

\* query() raised in a connected session that has counted an earlier prompt
C30_Witness ==
    /\ gen.state = "raised"
    /\ gen.error = "QueryError"
    /\ lastOp = Op("next", "QueryError", 1)
    /\ is_connected
    /\ message_count >= 1

\* C26: at the end of a turn each distinct path collected in the turn is
\* passed to _auto_open_file at most once, also when tools were used on the
\* same path several times in the turn
C26_EachPathOpenedOnce ==
    \A i, j \in DOMAIN autoOpened :
        autoOpened[i] = autoOpened[j] => i = j

\* The sessions run_cli created that are connected
ConnectedSessions == {i \in DOMAIN sessions : sessions[i].is_connected}

\* C24: at every point of the front-end loop at most one DesignSession is
\* connected: when the replacement of a /mode change or of /new is created
\* the session before it has been disconnected, and no failure of a
\* disconnect or connect leaves two connected sessions
C24_AtMostOneConnected ==
    /\ Cardinality(ConnectedSessions) <= 1
    /\ \A i \in ConnectedSessions : i = Len(sessions)

\* The second replacement of the first session has been connected
C24_Witness ==
    /\ Len(sessions) = 3
    /\ session.is_connected
    /\ cliOp = Op("connect", "ok", 1)
    /\ cliPc = "prompt"

\* C25: while a reply is rendered at most one spinner is animating, for
\* every order of text and tool_use events, and none is animating once the
\* iteration has ended
C25_OneSpinner ==
    /\ Cardinality(animating) <= 1
    /\ cliPc # "render" => animating = {}

C28_ModeMatchesSession ==
    cliPc = "prompt" => cliMode = session.autonomy_mode

====
